---------------------------- MODULE Spec2Model ----------------------------
(***************************************************************************)
(* A model of the knowledge-base question answering services:              *)
(*   - the chunker split_text_with_overlap (knowledge_base_service.py),    *)
(*   - the ingestion endpoint with content-hash deduplication,             *)
(*   - the chat Router (chat_service.py) with the knowledge-base query,    *)
(*     the search service's provider chain and the history save.           *)
(* Three specifications share the variables: ChunkSpec runs the chunker's  *)
(* loop one iteration per step, Spec runs ingestion requests against the   *)
(* index, ChatSpec runs chat requests through the tiers.                   *)
(***************************************************************************)
EXTENDS Integers, Sequences, FiniteSets, TLC

VARIABLES
    \* ---- chunker (split_text_with_overlap) ----
    cN,             \* len(words)
    cSize,          \* chunk_size
    cOverlap,       \* overlap
    cStart,         \* start
    cChunks,        \* chunks, each kept as its word range [start, end)
    cPc,            \* "loop" | "done"
    \* ---- ingestion (ingest_documents) ----
    document_store, \* the index: a list of chunk records
    storage_file,   \* the content of knowledge_base_storage.json
    calls,          \* the ingestion requests, by request number
    restarts,       \* number of restarts of the knowledge-base service
    observed,       \* the chunk records the latest lexical query scanned
    \* ---- chat Router (chat) ----
    pc,             \* position of the chat request
    request,        \* the chat request being served
    kb_response,    \* what query_knowledge_base returned to the Router
    kb_trace,       \* what the knowledge-base query did for this request
    search_response,\* what query_search_service returned to the Router
    search_trace,   \* what the search service was given for this request
    log,            \* capability calls made for the current request, in order
    response,       \* the HTTP outcome of the chat request
    history,        \* the history store: list of turns
    nreq,           \* number of chat requests started
    \* ---- lexical query (query_knowledge_base, text search) ----
    qText,          \* the query text
    qDocs,          \* the lexical index queried: a list of [text, filename]
    qScores,        \* the five scores and the combined score of each chunk
    qRetrieval,     \* the retrieval: the best match and the context
    qResponse,      \* the QueryResponse returned
    qPc,            \* "scan" | "enhance" | "done"
    qResults,       \* what collection.query returned (embeddings variant)
    USE_EMBEDDINGS, \* the index variant in use
    CONFIDENCE_THRESHOLD, \* the configured threshold, in thousandths
    \* ---- history service (file-based storage) ----
    hStore,         \* the list in chat_history.json
    hClock,         \* datetime.utcnow() at the latest save
    hOps,           \* number of saves and deletes served
    hOut            \* the latest request and what it returned

chunkVars == <<cN, cSize, cOverlap, cStart, cChunks, cPc>>
ingestVars == <<document_store, storage_file, calls, restarts, observed>>
chatVars == <<pc, request, kb_response, kb_trace, search_response, search_trace,
              log, response, history, nreq>>
queryVars == <<qText, qDocs, qScores, qRetrieval, qResponse, qPc, qResults,
               USE_EMBEDDINGS, CONFIDENCE_THRESHOLD>>
historyVars == <<hStore, hClock, hOps, hOut>>
vars == <<chunkVars, ingestVars, chatVars, queryVars, historyVars>>

Min(a, b) == IF a < b THEN a ELSE b

(***************************************************************************)
(* Chunker: split_text_with_overlap(text, chunk_size, overlap)             *)
(***************************************************************************)
\* Bounds of the chunker runs.
MaxTokens == 9
MaxChunkSize == 5
MaxOverlap == 5
\* The loop of a non-terminating run is cut after this many chunks; a
\* terminating run over n <= MaxTokens tokens emits at most n chunks.
MaxChunks == MaxTokens + 1

\* end = min(start + chunk_size, len(words))
ChunkEnd(start, chunk_size, n) == Min(start + chunk_size, n)

\* A mutant: the next window begins where the last one ended (no overlap).
NextStartNoOverlap(end, overlap) == end

\* start = end - overlap; if start <= 0: start = end
NextStart(end, overlap) ==
    LET s == end - overlap IN IF s <= 0 THEN end ELSE s

\* A mutant: the loop leaves one token before the window reaches the end.
LoopBreaksEarly(end, n) == end + 1 >= n

\* if end >= len(words): break
LoopBreaks(end, n) == end >= n

ChunkInit ==
    /\ cN \in 0..MaxTokens
    /\ cSize \in 1..MaxChunkSize
    /\ cOverlap \in 0..MaxOverlap
    /\ cStart = 0
    /\ cChunks = <<>>
    /\ cPc = "loop"

\* One iteration of "while start < len(words)".
ChunkIterate ==
    /\ cPc = "loop"
    /\ cStart < cN
    /\ Len(cChunks) < MaxChunks
    /\ LET end == ChunkEnd(cStart, cSize, cN) IN
        \* chunk_text.strip() is non-empty exactly when the window holds a word
        /\ cChunks' = IF end > cStart
                        THEN Append(cChunks, [start |-> cStart, end |-> end])
                        ELSE cChunks
        /\ IF LoopBreaks(end, cN)
             THEN /\ cPc' = "done"
                  /\ cStart' = cStart
             ELSE /\ cPc' = "loop"
                  /\ cStart' = NextStart(end, cOverlap)
    /\ UNCHANGED <<cN, cSize, cOverlap>>

\* The loop condition fails: return chunks.
ChunkReturn ==
    /\ cPc = "loop"
    /\ ~(cStart < cN)
    /\ cPc' = "done"
    /\ UNCHANGED <<cN, cSize, cOverlap, cStart, cChunks>>

ChunkNext ==
    \/ ChunkIterate /\ UNCHANGED <<ingestVars, chatVars, queryVars, historyVars>>
    \/ ChunkReturn /\ UNCHANGED <<ingestVars, chatVars, queryVars, historyVars>>

(***************************************************************************)
(* Ingestion: POST /ingest, ingest_documents(files)                        *)
(***************************************************************************)
\* Bounds of the ingestion runs: the number of requests, and the number of
\* files all requests carry together.
MaxCalls == 2
MaxUploads == 2
\* Bound: the number of restarts of the service.
MaxRestarts == 1
\* split_text_with_overlap is called with its default window (500 words,
\* overlap 50); the model scales the window down so that documents of a few
\* words are split into several chunks.
ScaledChunkSize == 2
ScaledOverlap == 1

Chars == {"a", "b", " "}
Filenames == {"f1.txt", "f2.txt"}
\* The uploaded contents: a blank file, three words, and the same three words
\* with other spacing.
Texts ==
    { <<" ">>,
      <<"a", " ", "b", " ", "a">>,
      <<"a", " ", " ", "b", " ", "a">> }

\* hashlib.md5(text_content.encode()).hexdigest(): the fingerprint of the raw
\* text, modelled as a collision-free code of the character sequence.
CharCode(ch) == CASE ch = "a" -> 1 [] ch = "b" -> 2 [] ch = " " -> 3

RECURSIVE Md5(_)
Md5(text) ==
    IF text = <<>> THEN 0 ELSE CharCode(Head(text)) + 4 * Md5(Tail(text))

\* text.split(): the maximal runs of non-blank characters, in order.
RECURSIVE SplitFrom(_, _, _)
SplitFrom(text, word, words) ==
    IF text = <<>>
      THEN IF word = <<>> THEN words ELSE Append(words, word)
      ELSE IF Head(text) = " "
             THEN SplitFrom(Tail(text), <<>>,
                            IF word = <<>> THEN words ELSE Append(words, word))
             ELSE SplitFrom(Tail(text), Append(word, Head(text)), words)

Split(text) == SplitFrom(text, <<>>, <<>>)

\* ' '.join(chunk_words)
RECURSIVE Join(_)
Join(words) ==
    IF words = <<>> THEN <<>>
    ELSE IF Len(words) = 1 THEN Head(words)
    ELSE Head(words) \o <<" ">> \o Join(Tail(words))

\* The loop of split_text_with_overlap as a function of (words, start, chunks).
RECURSIVE SplitLoop(_, _, _, _, _)
SplitLoop(words, chunk_size, overlap, start, chunks) ==
    IF ~(start < Len(words)) THEN chunks
    ELSE LET end == ChunkEnd(start, chunk_size, Len(words))
             chunk_text == Join(SubSeq(words, start + 1, end))
             chunks2 == IF chunk_text # <<>> THEN Append(chunks, chunk_text) ELSE chunks
         IN IF LoopBreaks(end, Len(words)) THEN chunks2
            ELSE SplitLoop(words, chunk_size, overlap, NextStart(end, overlap), chunks2)

split_text_with_overlap(text) ==
    SplitLoop(Split(text), ScaledChunkSize, ScaledOverlap, 0, <<>>)

CallIds == 1..MaxCalls

\* A request that has not arrived yet.
NoCall ==
    [ status |-> "idle", nfiles |-> 0, files |-> <<>>, names |-> <<>>, after |-> {},
      documents_added |-> 0, duplicates_skipped |-> 0, files_processed |-> <<>> ]

\* json.dump(document_store, f): a chunk record is written as a JSON object,
\* the list of its "key": value members, each value with its JSON type.
\* ("from" stands for the record's id.)
JsonKeys == <<"from", "text", "filename", "chunk_id", "content_hash", "chunk_length">>
JsonType(key) ==
    IF key \in {"chunk_id", "chunk_length"} THEN "number" ELSE "string"
JsonObject(doc) ==
    [k \in 1..Len(JsonKeys) |->
        [key |-> JsonKeys[k], type |-> JsonType(JsonKeys[k]), value |-> doc[JsonKeys[k]]]]
JsonDump(store) == [i \in 1..Len(store) |-> JsonObject(store[i])]

\* json.load(f): each JSON object becomes a dict of its members.
JsonDict(object) ==
    [key \in {object[k].key : k \in 1..Len(object)} |->
        (CHOOSE m \in {object[k] : k \in 1..Len(object)} : m.key = key).value]
JsonLoad(json) == [i \in 1..Len(json) |-> JsonDict(json[i])]

\* The storage file: absent until the first save.
NoFile == [exists |-> FALSE, json |-> <<>>]

\* A mutant: the save fails silently and leaves the file as it was.
SaveFailsSilently(store) == storage_file

\* save_documents_to_file()
save_documents_to_file(store) == [exists |-> TRUE, json |-> JsonDump(store)]

\* load_documents_from_file(): the list in the file, [] without a file.
load_documents_from_file(file) == IF file.exists THEN JsonLoad(file.json) ELSE <<>>

IngestInit ==
    /\ storage_file = NoFile
    /\ document_store = load_documents_from_file(storage_file)
    /\ calls = [c \in CallIds |-> NoCall]
    /\ restarts = 0
    /\ observed = <<>>

\* existing_hashes = [doc.get('content_hash') for doc in document_store]
existing_hashes(store) == {store[k].content_hash : k \in 1..Len(store)}

\* A mutant: a file is also a duplicate when its filename is indexed.
IsDuplicateByNameOrHash(store, filename, content_hash) ==
    \/ content_hash \in {store[k].content_hash : k \in 1..Len(store)}
    \/ filename \in {store[k].filename : k \in 1..Len(store)}

\* A mutant: the duplicate check compares filenames instead of fingerprints.
IsDuplicateByName(store, filename, content_hash) ==
    filename \in {store[k].filename : k \in 1..Len(store)}

\* if content_hash in existing_hashes
IsDuplicate(store, filename, content_hash) ==
    content_hash \in existing_hashes(store)

\* A mutant: the chunks are numbered from 1.
DocEntryOneBased(filename, content_hash, chunks, i, from) ==
    [ text |-> chunks[i + 1],
      filename |-> filename,
      chunk_id |-> i + 1,
      content_hash |-> content_hash,
      chunk_length |-> Len(chunks[i + 1]),
      from |-> from ]

\* doc_entry for chunk i of the file; "from" records the request and the
\* position of the file in it (the id's uuid4 and the timestamp are left out).
DocEntry(filename, content_hash, chunks, i, from) ==
    [ text |-> chunks[i + 1],
      filename |-> filename,
      chunk_id |-> i,
      content_hash |-> content_hash,
      chunk_length |-> Len(chunks[i + 1]),
      from |-> from ]

\* A mutant: the list is rebuilt from the chunks of the file instead of
\* being extended by them.
ReplaceWithChunks(store, filename, content_hash, chunks, i, from) ==
    [k \in 1..Len(chunks) |-> DocEntry(filename, content_hash, chunks, k - 1, from)]

\* A mutant: the loop over the chunks leaves the last chunk out.
AppendAllButLast(store, filename, content_hash, chunks, i, from) ==
    store \o [k \in 1..(Len(chunks) - 1) |->
                 DocEntry(filename, content_hash, chunks, k - 1, from)]

\* A mutant: the loop over the chunks stops after the first chunk.
AppendFirstChunk(store, filename, content_hash, chunks, i, from) ==
    IF chunks = <<>> THEN store
    ELSE Append(store, DocEntry(filename, content_hash, chunks, 0, from))

\* for i, chunk in enumerate(chunks): document_store.append(doc_entry)
RECURSIVE AppendChunks(_, _, _, _, _, _)
AppendChunks(store, filename, content_hash, chunks, i, from) ==
    IF i >= Len(chunks) THEN store
    ELSE AppendChunks(Append(store, DocEntry(filename, content_hash, chunks, i, from)),
                      filename, content_hash, chunks, i + 1, from)

\* The number of files the requests so far carry.
RECURSIVE Uploads(_, _)
Uploads(cs, c) == IF c = 0 THEN 0 ELSE cs[c].nfiles + Uploads(cs, c - 1)

\* A request arrives with n files. Requests are numbered in arrival order.
IngestStart(c) ==
    /\ calls[c].status = "idle"
    /\ \A d \in CallIds : d < c => calls[d].status # "idle"
    /\ \E n \in 1..(MaxUploads - Uploads(calls, MaxCalls)) :
         calls' = [calls EXCEPT ![c] =
                     [NoCall EXCEPT !.status = "running", !.nfiles = n,
                        !.after = {d \in CallIds : calls[d].status = "returned"}]]
    /\ UNCHANGED <<document_store, storage_file, restarts, observed>>

\* One pass of "for file in files": from "await file.read()" to the end of the
\* loop body. No await lies between the read and the append, so the pass is
\* one step of the event loop.
IngestFile(c) ==
    /\ calls[c].status = "running"
    /\ Len(calls[c].files) < calls[c].nfiles
    /\ \E filename \in Filenames, text_content \in Texts :
         LET content_hash == Md5(text_content)
             chunks == split_text_with_overlap(text_content)
             from == <<c, Len(calls[c].files) + 1>>
             file == content_hash
         IN IF IsDuplicate(document_store, filename, content_hash)
              THEN \* duplicates_skipped += 1; continue
                   /\ calls' = [calls EXCEPT
                         ![c].files = Append(@, file),
                         ![c].names = Append(@, filename),
                         ![c].duplicates_skipped = @ + 1]
                   /\ UNCHANGED <<document_store, storage_file>>
              ELSE /\ document_store' =
                         AppendChunks(document_store, filename, content_hash, chunks, 0, from)
                   /\ storage_file' = save_documents_to_file(document_store')
                   /\ calls' = [calls EXCEPT
                         ![c].files = Append(@, file),
                         ![c].names = Append(@, filename),
                         ![c].documents_added = @ + Len(chunks),
                         ![c].files_processed = Append(@, filename)]
    /\ UNCHANGED <<restarts, observed>>

\* The pass of the loop for a file whose bytes are not UTF-8:
\* content.decode('utf-8') raises UnicodeDecodeError, the except clause of
\* ingest_documents answers HTTP 500 and the remaining files are not read.
IngestFileUndecodable(c) ==
    /\ calls[c].status = "running"
    /\ Len(calls[c].files) < calls[c].nfiles
    /\ calls' = [calls EXCEPT ![c].status = "failed"]
    /\ UNCHANGED <<document_store, storage_file, restarts, observed>>

\* After the loop: save_documents_to_file() and return IngestResponse.
IngestReturn(c) ==
    /\ calls[c].status = "running"
    /\ Len(calls[c].files) = calls[c].nfiles
    /\ storage_file' = save_documents_to_file(document_store)
    /\ calls' = [calls EXCEPT ![c].status = "returned"]
    /\ UNCHANGED <<document_store, restarts, observed>>

\* The service is stopped and started again: the requests in progress are
\* lost and document_store is loaded from the storage file.
Restart ==
    /\ restarts < MaxRestarts
    /\ restarts' = restarts + 1
    /\ document_store' = load_documents_from_file(storage_file)
    /\ calls' = [c \in CallIds |->
                   IF calls[c].status = "running"
                     THEN [calls[c] EXCEPT !.status = "aborted"]
                     ELSE calls[c]]
    /\ UNCHANGED <<storage_file, observed>>

\* The scan of a lexical query, "for doc in document_store": it runs without
\* an await, between two steps of the ingestion requests.
QueryScan ==
    /\ observed' = document_store
    /\ observed' # observed
    /\ UNCHANGED <<document_store, storage_file, calls, restarts>>

IngestNext ==
    \/ \E c \in CallIds : IngestStart(c) /\ UNCHANGED <<chunkVars, chatVars, queryVars, historyVars>>
    \/ \E c \in CallIds : IngestFile(c) /\ UNCHANGED <<chunkVars, chatVars, queryVars, historyVars>>
    \/ \E c \in CallIds : IngestFileUndecodable(c) /\ UNCHANGED <<chunkVars, chatVars, queryVars, historyVars>>
    \/ \E c \in CallIds : IngestReturn(c) /\ UNCHANGED <<chunkVars, chatVars, queryVars, historyVars>>
    \/ Restart /\ UNCHANGED <<chunkVars, chatVars, queryVars, historyVars>>
    \/ QueryScan /\ UNCHANGED <<chunkVars, chatVars, queryVars, historyVars>>

(***************************************************************************)
(* Texts of answers. A text is known by its content (body, a list of       *)
(* pieces), by the lower-cased prefix it begins with (head) and by its     *)
(* stripped length.                                                        *)
(***************************************************************************)
None == [none |-> TRUE]
Text(body, head, len) == [body |-> body, head |-> head, len |-> len]

\* Python truthiness of an optional string.
Truthy(t) == t # None /\ t.len > 0

\* The known heads that begin with p.
HeadsWith(p) ==
    IF p = "i don't have" THEN {"i don't have", "i don't have information"} ELSE {p}

\* t.lower().startswith(p)
StartsWith(t, p) == t.head \in HeadsWith(p)

\* document_content.lower()[:100]
First100(t) ==
    IF t.len <= 100 THEN t ELSE Text(Append(t.body, "[:100]"), t.head, 100)

\* "\n\n".join(texts)
RECURSIVE JoinTexts(_)
JoinTexts(texts) ==
    IF Len(texts) = 1 THEN texts[1]
    ELSE LET rest == JoinTexts(Tail(texts))
         IN Text(texts[1].body \o <<"\n\n">> \o rest.body, texts[1].head,
                 texts[1].len + 2 + rest.len)

\* The chunk texts an index may hold (their lengths lie on both sides of the
\* length gates 10 and 15).
ChunkTexts ==
    { Text(<<"chunk_a">>, "python is", 9),
      Text(<<"chunk_b">>, "python is", 13),
      Text(<<"chunk_c">>, "python is", 16),
      Text(<<"chunk_d">>, "no sufficiently relevant", 40),
      Text(<<"chunk_e">>, "i don't have information", 40) }

\* The texts the generative capability may produce.
GenTexts ==
    { Text(<<"gen_a">>, "python is", 12),
      Text(<<"gen_b">>, "python is", 45),
      Text(<<"gen_c">>, "i'm sorry", 41),
      Text(<<"gen_d">>, "no relevant information", 48),
      Text(<<>>, "", 0) }

\* Scores and confidences are kept in thousandths.
Scores == {100, 350, 450}
\* Bound: the number of chunks the queried index holds.
MaxCands == 2

\* The outcomes of a call to the generative API (requests.post, timeout=15).
GeminiFailures ==
    {"Timeout", "ConnectionError", "Exception", "429", "403", "500", "200_invalid_structure"}

(***************************************************************************)
(* Answer Enhancer: enhance_answer_with_gemini(query, document_content)    *)
(***************************************************************************)
\* A mutant: the validation of the generated text is skipped.
EnhancedIsUsefulAlways(cleaned_answer, document_content) == TRUE

\* The validation of the generated text.
EnhancedIsUseful(cleaned_answer, document_content) ==
    /\ Truthy(cleaned_answer)
    /\ cleaned_answer.len > 15
    /\ ~StartsWith(cleaned_answer, "the provided document doesn't contain")
    /\ ~StartsWith(cleaned_answer, "i don't have")
    /\ ~StartsWith(cleaned_answer, "i cannot")
    /\ ~StartsWith(cleaned_answer, "i'm sorry")
    /\ ~StartsWith(cleaned_answer, "based on the document")
    /\ cleaned_answer # First100(document_content)

\* cleaned_answer = clean_text(answer): the text of a 200 answer.
Generated(gem, document_content) ==
    IF ~gem.configured \/ gem.outcome # "200" THEN None
    ELSE IF gem.echo THEN First100(document_content) ELSE gem.text

\* gem = [configured, outcome, echo, text]: whether GEMINI_API_KEY is set, how
\* the API call ends, and the generated text of a 200 answer (echo: it is the
\* first 100 characters of the context).
enhance_answer_with_gemini(gem, document_content) ==
    IF ~gem.configured THEN None
    ELSE IF gem.outcome # "200" THEN None
    ELSE LET cleaned_answer == Generated(gem, document_content)
         IN IF EnhancedIsUseful(cleaned_answer, document_content)
              THEN cleaned_answer
              ELSE None

(***************************************************************************)
(* Knowledge-base query: GET /query, query_knowledge_base(text)            *)
(***************************************************************************)
KbNoRelevant == Text(<<"No relevant information found in knowledge base.">>,
                     "no relevant information", 48)
KbNoSufficient == Text(<<"No sufficiently relevant information found in knowledge base.">>,
                       "no sufficiently relevant", 61)

QueryResponse(answer, relevant, confidence, source_documents, processing_method) ==
    [ answer |-> answer, relevant |-> relevant, confidence |-> confidence,
      source_documents |-> source_documents, processing_method |-> processing_method ]

\* The outcome of retrieval, before enhancement: whether a best match passed
\* the gate, the best chunk and its score, the context handed to the enhancer
\* and the sources to cite.
Retrieval(method, empty, matched, best_match, best_score, context, source_docs) ==
    [ method |-> method, empty |-> empty, matched |-> matched,
      best_match |-> best_match, best_score |-> best_score,
      context |-> context, source_docs |-> source_docs ]

NoMatch(method, empty) == Retrieval(method, empty, FALSE, None, 0, None, <<>>)

\* What the query did, kept beside the response: the retrieval, how the call
\* of the generative API ended ("" when the enhancer was not called), and
\* what the enhancer returned; generated: the text the API generated (None
\* unless the call ended with 200), echoed: whether that text is the first
\* 100 characters of the context.
KbTrace(retrieval, enhancer, generated, echoed, enhanced) ==
    [ retrieval |-> retrieval, enhancer |-> enhancer, generated |-> generated,
      echoed |-> echoed, enhanced |-> enhanced ]

NoTrace == KbTrace(NoMatch("", FALSE), "", None, FALSE, None)

\* Once the query has answered, the trace keeps of the retrieval only the
\* method, the verdict and the best chunk.
Brief(r) == [r EXCEPT !.best_score = 0, !.context = None, !.source_docs = <<>>]

\* matches.sort(key=lambda x: x['score'], reverse=True): a stable sort.
RECURSIVE InsertByScore(_, _)
InsertByScore(sorted, m) ==
    IF sorted = <<>> THEN <<m>>
    ELSE IF Head(sorted).score >= m.score
           THEN <<Head(sorted)>> \o InsertByScore(Tail(sorted), m)
           ELSE <<m>> \o sorted

RECURSIVE SortByScore(_, _)
SortByScore(sorted, rest) ==
    IF rest = <<>> THEN sorted
    ELSE SortByScore(InsertByScore(sorted, Head(rest)), Tail(rest))

FirstN(seq, n) == SubSeq(seq, 1, Min(n, Len(seq)))

SourceDocs(matches) ==
    [k \in 1..Len(matches) |-> [filename |-> matches[k].filename, score |-> matches[k].score]]

\* A mutant: a failed enhancement leaves no answer.
FinalAnswerNoFallback(enhanced_answer, best_match) == enhanced_answer

\* final_answer = enhanced_answer if enhanced_answer else best_match
FinalAnswer(enhanced_answer, best_match) ==
    IF Truthy(enhanced_answer) THEN enhanced_answer ELSE best_match

\* is_useful of the text-search branch
IsUsefulText(final_answer) ==
    /\ Truthy(final_answer)
    /\ final_answer.len > 10
    /\ ~StartsWith(final_answer, "no relevant information")
    /\ ~StartsWith(final_answer, "this document does not contain")

\* is_useful of the embeddings branch
IsUsefulEmbeddings(final_answer) ==
    /\ Truthy(final_answer)
    /\ final_answer.len > 10
    /\ ~StartsWith(final_answer, "no relevant information")
    /\ ~StartsWith(final_answer, "this document does not contain")
    /\ ~StartsWith(final_answer, "i don't have information")

\* A mutant: the matches are left in store order, and the first kept chunk
\* is taken as the best match.
RetrieveTextUnsorted(scored) ==
    LET matches == SelectSeq(scored, LAMBDA m : m.score > 300)
    IN IF matches # <<>>
         THEN LET best_match == matches[1]
                  context ==
                      IF best_match.score < 400 /\ Len(matches) > 1
                        THEN JoinTexts([k \in 1..Len(FirstN(matches, 3)) |-> matches[k].text])
                        ELSE best_match.text
              IN Retrieval("text_search", FALSE, TRUE, best_match.text, best_match.score,
                           context, SourceDocs(FirstN(matches, 3)))
         ELSE NoMatch("text_search", FALSE)

\* The text-search branch up to the best match. scored: the chunks of
\* document_store with the combined_score of each for the query, in store
\* order.
RetrieveText(scored) ==
    LET kept == SelectSeq(scored, LAMBDA m : m.score > 300)
        matches == SortByScore(<<>>, kept)
    IN IF matches # <<>>
         THEN LET best_match == matches[1]
                  context ==
                      IF best_match.score < 400 /\ Len(matches) > 1
                        THEN JoinTexts([k \in 1..Len(FirstN(matches, 3)) |-> matches[k].text])
                        ELSE best_match.text
              IN Retrieval("text_search", FALSE, TRUE, best_match.text, best_match.score,
                           context, SourceDocs(FirstN(matches, 3)))
         ELSE NoMatch("text_search", FALSE)

\* The scan "for i, (doc, distance, metadata) in enumerate(...)": the first
\* result of greatest confidence among those above 0.4.
RECURSIVE BestOf(_, _)
BestOf(results, best) ==
    IF results = <<>> THEN best
    ELSE LET r == Head(results)
         IN IF r.score > 400 /\ r.score > (IF best = None THEN 0 ELSE best.score)
              THEN BestOf(Tail(results), r)
              ELSE BestOf(Tail(results), best)

\* The embeddings branch up to the best match. results: the (at most 10)
\* nearest chunks with score = confidence = 1 - distance, nearest first.
RetrieveEmbeddings(results) ==
    IF results = <<>> THEN NoMatch("embeddings", TRUE)
    ELSE
      LET best == BestOf(results, None)
          source_docs == SourceDocs(SelectSeq(results, LAMBDA r : r.score > 400))
      IN IF best # None /\ best.score > 200
           THEN LET context_docs == SelectSeq(FirstN(results, 3), LAMBDA r : r.score > 150)
                    context ==
                        IF best.score < 500 /\ Len(results) > 1 /\ context_docs # <<>>
                          THEN JoinTexts([k \in 1..Len(context_docs) |-> context_docs[k].text])
                          ELSE best.text
                IN Retrieval("embeddings", FALSE, TRUE, best.text, best.score,
                             context, FirstN(source_docs, 3))
           ELSE NoMatch("embeddings", FALSE)

Retrieve(use_embeddings, scored) ==
    IF use_embeddings THEN RetrieveEmbeddings(scored) ELSE RetrieveText(scored)

\* How the enhancer's call of the generative API ended, for the trace.
EnhancerEnded(gem) ==
    IF ~gem.configured THEN "not_configured"
    ELSE IF gem.outcome \in GeminiFailures THEN "failed"
    ELSE gem.outcome

\* A mutant: the miss response reports the score and the sources of the
\* retrieval.
MissKeepsScore(r) ==
    QueryResponse(IF r.method = "embeddings" /\ ~r.empty THEN KbNoSufficient ELSE KbNoRelevant,
                  FALSE, r.best_score, r.source_docs, r.method)

\* The answer of a query whose retrieval found no best match.
MissResponse(r) ==
    QueryResponse(IF r.method = "embeddings" /\ ~r.empty THEN KbNoSufficient ELSE KbNoRelevant,
                  FALSE, 0, <<>>, r.method)

\* A mutant: without an enhancement the answer is the context given to the
\* enhancer.
AnswerFromContext(r, gem) ==
    LET enhanced_answer == enhance_answer_with_gemini(gem, r.context)
        final_answer == FinalAnswer(enhanced_answer, r.context)
        is_useful == IF r.method = "embeddings" THEN IsUsefulEmbeddings(final_answer)
                                               ELSE IsUsefulText(final_answer)
    IN [ resp |-> IF is_useful
                    THEN QueryResponse(final_answer, TRUE, r.best_score, r.source_docs, r.method)
                    ELSE MissResponse(r),
         trace |-> KbTrace(Brief(r), EnhancerEnded(gem), Generated(gem, r.context),
                           gem.configured /\ gem.outcome = "200" /\ gem.echo,
                           enhanced_answer) ]

\* The rest of the query after a best match: enhancement, the choice of the
\* final answer and its validation.
AnswerFrom(r, gem) ==
    LET enhanced_answer == enhance_answer_with_gemini(gem, r.context)
        final_answer == FinalAnswer(enhanced_answer, r.best_match)
        is_useful == IF r.method = "embeddings" THEN IsUsefulEmbeddings(final_answer)
                                               ELSE IsUsefulText(final_answer)
    IN [ resp |-> IF is_useful
                    THEN QueryResponse(final_answer, TRUE, r.best_score, r.source_docs, r.method)
                    ELSE MissResponse(r),
         trace |-> KbTrace(Brief(r), EnhancerEnded(gem), Generated(gem, r.context),
                           gem.configured /\ gem.outcome = "200" /\ gem.echo,
                           enhanced_answer) ]

(***************************************************************************)
(* Lexical scoring: the text-search branch of query_knowledge_base, on the *)
(* characters of the query, of the chunk and of the filename               *)
(***************************************************************************)
UpperCase == "ABCDEFGHIJKLMNOPQRSTUVWXYZ"
LowerCase == "abcdefghijklmnopqrstuvwxyz"

CharAt(s, i) == SubSeq(s, i, i)

UpperChars == {CharAt(UpperCase, i) : i \in 1..Len(UpperCase)}
LowerOf ==
    [c \in UpperChars |->
        CharAt(LowerCase, CHOOSE i \in 1..Len(UpperCase) : CharAt(UpperCase, i) = c)]

LowerChar(c) == IF c \in UpperChars THEN LowerOf[c] ELSE c

\* str.lower()
RECURSIVE lower(_)
lower(s) ==
    IF s = "" THEN "" ELSE LowerChar(CharAt(s, 1)) \o lower(SubSeq(s, 2, Len(s)))

IsSpace(c) == c \in {" ", "\n", "\t"}

\* set(s.split()): the maximal runs of characters that are not whitespace.
split(s) ==
    LET starts == { i \in 1..Len(s) :
                      ~IsSpace(CharAt(s, i)) /\ (i = 1 \/ IsSpace(CharAt(s, i - 1))) }
        ends == { j \in 1..Len(s) :
                      ~IsSpace(CharAt(s, j)) /\ (j = Len(s) \/ IsSpace(CharAt(s, j + 1))) }
        EndOf(i) == CHOOSE j \in ends : j >= i /\ \A k \in ends : k >= i => j <= k
    IN { SubSeq(s, i, EndOf(i)) : i \in starts }

\* "needle in hay" on strings.
Contains(hay, needle) ==
    \E i \in 1..(Len(hay) - Len(needle) + 1) : SubSeq(hay, i, i + Len(needle) - 1) = needle

\* s.startswith(p)
HasPrefix(s, p) == Len(p) <= Len(s) /\ SubSeq(s, 1, Len(p)) = p

\* len(s.strip())
StrippedLen(s) ==
    IF \A k \in 1..Len(s) : IsSpace(CharAt(s, k)) THEN 0
    ELSE LET first == CHOOSE i \in 1..Len(s) :
                          ~IsSpace(CharAt(s, i)) /\ \A k \in 1..(i - 1) : IsSpace(CharAt(s, k))
             last == CHOOSE j \in 1..Len(s) :
                          ~IsSpace(CharAt(s, j)) /\ \A k \in (j + 1)..Len(s) : IsSpace(CharAt(s, k))
         IN last - first + 1

\* The prefixes the validations look for.
KnownHeads ==
    { "no relevant information", "no sufficiently relevant",
      "this document does not contain", "the provided document doesn't contain",
      "i don't have", "i don't have information", "i cannot", "i'm sorry",
      "based on the document" }

\* The text of a string: its content, the longest known prefix its lower
\* case begins with (itself when there is none) and its stripped length.
TextOf(s) ==
    LET l == lower(s)
        heads == {h \in KnownHeads : HasPrefix(l, h)}
    IN Text(<<s>>,
            IF heads = {} THEN l
            ELSE CHOOSE h \in heads : \A g \in heads : Len(g) <= Len(h),
            StrippedLen(s))

\* A score k / n, 0 when n = 0 ("... if query_words else 0").
Ratio(k, n) == IF n = 0 THEN [num |-> 0, den |-> 1] ELSE [num |-> k, den |-> n]

\* ratio * weight, in thousandths (weight in thousandths).
Weighted(ratio, weight) == (ratio.num * weight) \div ratio.den

LongWords(query_words) == {w \in query_words : Len(w) > 3}

\* query_words = set(query_lower.split())
QueryWords(query_lower) == split(query_lower)

\* The five scores of one chunk for the query and their weighted sum.
ScoreDoc(text, doc) ==
    LET query_lower == lower(text)
        query_words == QueryWords(query_lower)
        doc_text == lower(doc.text)
        doc_words == split(doc_text)
        filename == lower(doc.filename)
        n == Cardinality(query_words)
        overlap_score == Ratio(Cardinality(query_words \cap doc_words), n)
        substring_score ==
            Ratio(Cardinality({w \in query_words : Contains(doc_text, w)}), n)
        phrase_score == IF Contains(doc_text, query_lower) THEN Ratio(1, 1) ELSE Ratio(0, 1)
        filename_score ==
            Ratio(Cardinality({w \in query_words : Contains(filename, w)}), n)
        specific_matches ==
            Cardinality({w \in LongWords(query_words) : Contains(doc_text, w)})
        specific_score == Ratio(specific_matches, Cardinality(LongWords(query_words)))
    IN [ overlap_score |-> overlap_score, substring_score |-> substring_score,
         phrase_score |-> phrase_score, filename_score |-> filename_score,
         specific_score |-> specific_score,
         combined_score |-> Weighted(overlap_score, 300) + Weighted(substring_score, 300)
                            + Weighted(phrase_score, 200) + Weighted(filename_score, 100)
                            + Weighted(specific_score, 100) ]

\* "for doc in document_store": the scores of every chunk, in store order.
ScoreStore(text, store) == [k \in 1..Len(store) |-> ScoreDoc(text, store[k])]

\* The chunks with their combined score, as the retrieval takes them.
ScoredChunks(store, scores) ==
    [k \in 1..Len(store) |-> [ text |-> TextOf(store[k].text),
                               score |-> scores[k].combined_score,
                               filename |-> store[k].filename ]]

\* The queries, chunk texts and filenames of the lexical query.
QueryStrings ==
    { "What is Python?", "what is python", "Python", "Python language", "Java", "" }
DocStrings ==
    { "Python is a high-level language. Python supports OOP.",
      "Java is a compiled language.",
      "What is Python? A language." }
DocFilenames == { "doc1.txt", "Language_Notes.txt" }
LexicalDoc == [text : DocStrings, filename : DocFilenames]
\* Bound: the number of chunks of the lexical index queried.
MaxDocs == 2
LexicalStores == UNION { [1..n -> LexicalDoc] : n \in 0..MaxDocs }

(***************************************************************************)
(* Search service: GET /search, search(query)                              *)
(***************************************************************************)
\* What a web-search provider may return after clean_text: nothing, an empty
\* text, or content.
ProviderResults ==
    { None, Text(<<>>, "", 0), Text(<<"web_a">>, "python is", 80) }

\* How a call of ddgs.text ends.
DdgsOutcomes == {"raises", "no_results", "results"}
\* clean_text(formatted_results): "Title: ... Snippet: ..."
DdgsText == Text(<<"ddgs_results">>, "title:", 80)

\* get_ddgs_results(query). run = [first, second]: how ddgs.text(query) ends
\* and, when it raises, how ddgs.text(simple_query) ends. The result holds
\* the text returned (None without results) and the calls made.
get_ddgs_results(run) ==
    IF run.first = "raises"
      THEN [ result |-> IF run.second = "results" THEN DdgsText ELSE None,
             calls |-> <<"ddgs.text", "ddgs.text">> ]
      ELSE [ result |-> IF run.first = "results" THEN DdgsText ELSE None,
             calls |-> <<"ddgs.text">> ]

\* What the generative API may return to the search service.
SearchGenResults ==
    { None, Text(<<>>, "", 0), Text(<<"gen_b">>, "python is", 45),
      Text(<<"gen_c">>, "i'm sorry", 41) }

SearchFallbackText ==
    Text(<<"I couldn't find relevant information for your query.">>, "i couldn't find", 52)

SearchResponse(answer, source) == [answer |-> answer, source |-> source]

\* enhance_with_gemini / get_gemini_direct_answer: None without an API key.
SearchGemini(configured, result) == IF configured THEN result ELSE None

\* One provider's branch of search: its content, enhanced when possible.
ProviderAnswer(found, enhanced_answer, name) ==
    SearchResponse(IF Truthy(enhanced_answer) THEN enhanced_answer ELSE found,
                   IF Truthy(enhanced_answer) THEN name \o "_gemini" ELSE name)

\* A mutant: the final fallback of search answers with an empty text.
SearchFinalFallbackEmpty == SearchResponse(Text(<<>>, "", 0), "fallback")

\* return SearchResponse(answer="I couldn't find ...", source="fallback")
SearchFinalFallback == SearchResponse(SearchFallbackText, "fallback")

\* A mutant: the direct generative answer is tried before the providers.
SearchDirectFirst(cfg, env) ==
    LET direct == SearchGemini(cfg.search_gemini, env.gemini)
    IN IF Truthy(direct)
         THEN [ resp |-> SearchResponse(direct, "gemini_direct"), calls |-> <<"direct">> ]
         ELSE [ resp |-> SearchFinalFallback, calls |-> <<"direct">> ]

\* search(query). env gives what each capability returns when called:
\* env.ddgs, env.instant, env.scrape (providers) and env.gemini (the one call
\* of the generative API a request makes: enhance_with_gemini after a
\* provider found content, else get_gemini_direct_answer). The result holds
\* the response and the calls made.
search(cfg, env) ==
    LET enhanced == SearchGemini(cfg.search_gemini, env.gemini)
        direct == SearchGemini(cfg.search_gemini, env.gemini)
        ddgs == get_ddgs_results(env.ddgs)
    IN IF cfg.USE_DDGS /\ Truthy(ddgs.result)
         THEN [ resp |-> ProviderAnswer(ddgs.result, enhanced, "ddgs"),
                calls |-> ddgs.calls \o <<"enhance">> ]
       ELSE IF Truthy(env.instant)
         THEN [ resp |-> ProviderAnswer(env.instant, enhanced, "duckduckgo_instant"),
                calls |-> (IF cfg.USE_DDGS THEN ddgs.calls ELSE <<>>)
                            \o <<"instant", "enhance">> ]
       ELSE IF ~cfg.USE_DDGS /\ Truthy(env.scrape)
         THEN [ resp |-> ProviderAnswer(env.scrape, enhanced, "duckduckgo_scrape"),
                calls |-> <<"instant", "scrape", "enhance">> ]
       ELSE LET calls3 == (IF cfg.USE_DDGS THEN ddgs.calls \o <<"instant">>
                                           ELSE <<"instant", "scrape">>) \o <<"direct">>
            IN IF Truthy(direct)
                 THEN [ resp |-> SearchResponse(direct, "gemini_direct"), calls |-> calls3 ]
                 ELSE [ resp |-> SearchFinalFallback, calls |-> calls3 ]

\* Whether every web-search provider the configuration uses returned no
\* content.
ProvidersEmpty(cfg, env) ==
    /\ (cfg.USE_DDGS => ~Truthy(get_ddgs_results(env.ddgs).result))
    /\ ~Truthy(env.instant)
    /\ (~cfg.USE_DDGS => ~Truthy(env.scrape))

\* Whether every provider the configuration uses returned no content and the
\* direct generative answer is missing.
AllEmpty(cfg, env) ==
    /\ (cfg.USE_DDGS => ~Truthy(get_ddgs_results(env.ddgs).result))
    /\ ~Truthy(env.instant)
    /\ (~cfg.USE_DDGS => ~Truthy(env.scrape))
    /\ ~Truthy(SearchGemini(cfg.search_gemini, env.gemini))

(***************************************************************************)
(* Chat service: POST /chat, chat(request)                                 *)
(***************************************************************************)
\* Bound: the number of chat requests served.
MaxRequests == 1

ChatIds == {"chat-1"}
QueryText == Text(<<"What is Python?">>, "what is", 15)
ApologyText ==
    Text(<<"I'm sorry, I couldn't find relevant information in the knowledge base or through web search.">>,
         "i'm sorry", 92)
SystemErrorText == Text(<<"System error occurred">>, "system error", 21)

\* How an HTTP call of the chat service to another service ends: a status
\* code, or an exception of requests (each a requests.RequestException).
TransportOutcomes == {"200", "500", "ConnectionError", "Timeout"}
HistoryOutcomes == {"200", "500", "ConnectionError"}
RequestException == {"ConnectionError", "Timeout"}
Raised == [raised |-> TRUE]

\* A mutant: the helper lets the exceptions of requests through.
QueryServiceUncaught(outcome, body) ==
    IF outcome = "200" THEN body
    ELSE IF outcome \in RequestException THEN Raised
    ELSE None

\* query_knowledge_base / query_search_service: the JSON body of a 200
\* answer, None for another status and for a caught RequestException.
QueryService(outcome, body) ==
    IF outcome = "200" THEN body
    ELSE IF outcome \in RequestException THEN None
    ELSE IF outcome \in TransportOutcomes THEN None
    ELSE Raised

\* A mutant: the Router takes every relevant answer, whatever its text.
KbHasAnswerAnyText(kb) ==
    /\ kb # None
    /\ kb.relevant
    /\ kb.confidence > 150
    /\ Truthy(kb.answer)

\* A mutant: the length gate as it was before it was lowered from 20 to 15.
KbHasAnswerLen20(kb) ==
    /\ kb # None
    /\ kb.relevant
    /\ kb.confidence > 150
    /\ Truthy(kb.answer)
    /\ ~StartsWith(kb.answer, "no relevant information")
    /\ ~StartsWith(kb.answer, "no sufficiently relevant")
    /\ ~StartsWith(kb.answer, "this document does not contain")
    /\ kb.answer.len > 20

\* kb_has_answer
KbHasAnswer(kb) ==
    /\ kb # None
    /\ kb.relevant
    /\ kb.confidence > 150
    /\ Truthy(kb.answer)
    /\ ~StartsWith(kb.answer, "no relevant information")
    /\ ~StartsWith(kb.answer, "no sufficiently relevant")
    /\ ~StartsWith(kb.answer, "this document does not contain")
    /\ kb.answer.len > 15

ChatResponse(status, text, source, confidence, source_docs) ==
    [ status |-> status, response |-> text, source |-> source,
      confidence |-> confidence, source_documents |-> source_docs ]

NoResponse == ChatResponse(0, None, "", 0, <<>>)
\* raise HTTPException(status_code=500, detail="Internal server error")
InternalServerError == ChatResponse(500, None, "", 0, <<>>)

\* The response built from the knowledge-base answer.
KbAnswer(kb) ==
    ChatResponse(200, kb.answer, "knowledge_base", kb.confidence, kb.source_documents)

\* A mutant: the confidence of a search result is set before the test of
\* the search answer, and the apology keeps it.
SearchAnswerApologyKeepsScore(sr) ==
    IF sr # None /\ Truthy(sr.answer)
      THEN ChatResponse(200, sr.answer, "search_" \o sr.source, 500,
                        <<"Web search via " \o sr.source>>)
      ELSE ChatResponse(200, ApologyText, "fallback", 500, <<>>)

\* The response built after the search lookup.
SearchAnswer(sr) ==
    IF sr # None /\ Truthy(sr.answer)
      THEN ChatResponse(200, sr.answer, "search_" \o sr.source, 500,
                        <<"Web search via " \o sr.source>>)
      ELSE ChatResponse(200, ApologyText, "fallback", 0, <<>>)

SearchTrace(reached, all_empty, providers_empty) ==
    [reached |-> reached, all_empty |-> all_empty, providers_empty |-> providers_empty]
NoSearchTrace == SearchTrace(FALSE, FALSE, FALSE)

\* The index contents a query may meet: at most MaxCands chunks, each with
\* its score for the query.
Scored == [text : ChunkTexts, score : Scores, filename : {"doc1.txt"}]
ScoredLists == UNION {[1..n -> Scored] : n \in 0..MaxCands}

\* The answer of collection.query to an embeddings query: at most MaxCands
\* chunks with their distances to the query (in thousandths), nearest first.
Distances == {100, 550, 650, 1500}
QueryResult == [text : ChunkTexts, distance : Distances, filename : {"doc1.txt"}]
IsNearestFirst(l) == \A k \in 1..(Len(l) - 1) : l[k].distance <= l[k + 1].distance
QueryResults ==
    {l \in UNION {[1..n -> QueryResult] : n \in 0..MaxCands} : IsNearestFirst(l)}

\* A mutant: the distance is added instead of subtracted.
ConfidenceSignSlip(distance) == 1000 + distance

\* confidence = 1.0 - distance
Confidence(distance) == 1000 - distance

\* The results of an embeddings query with the confidence of each.
WithConfidence(results) ==
    [k \in 1..Len(results) |->
        [ text |-> results[k].text, score |-> Confidence(results[k].distance),
          filename |-> results[k].filename ]]

\* What the index may hold for a query, by variant.
Candidates(use_embeddings) ==
    IF use_embeddings THEN {WithConfidence(results) : results \in QueryResults}
    ELSE ScoredLists

\* What the generative API may do when the enhancer calls it.
GeminiCalls ==
    [configured : {FALSE}, outcome : {"200"}, echo : {FALSE}, text : {None}]
    \cup [configured : {TRUE}, outcome : GeminiFailures, echo : {FALSE}, text : {None}]
    \cup [configured : {TRUE}, outcome : {"200"}, echo : {FALSE}, text : GenTexts]
    \cup [configured : {TRUE}, outcome : {"200"}, echo : {TRUE}, text : {None}]

SearchConfigs == [USE_DDGS : BOOLEAN, search_gemini : BOOLEAN]
\* ddgs.text(simple_query) is only called when ddgs.text(query) raised.
DdgsRuns ==
    [first : {"raises"}, second : DdgsOutcomes]
    \cup [first : DdgsOutcomes \ {"raises"}, second : {"not_called"}]
SearchEnvs ==
    [ ddgs : DdgsRuns,
      instant : ProviderResults, scrape : ProviderResults,
      gemini : SearchGenResults ]

\* What the search service may do with a query: its response, the calls it
\* made and whether every provider was empty, over every configuration and
\* every behaviour of the providers.
SearchRuns ==
    { [ resp |-> search(cfg, env).resp, calls |-> search(cfg, env).calls,
        all_empty |-> AllEmpty(cfg, env),
        providers_empty |-> ProvidersEmpty(cfg, env) ] :
      cfg \in SearchConfigs, env \in SearchEnvs }

\* What the retrieval of a query may find, over both index variants and every
\* index content in bounds.
Retrievals ==
    UNION { {Retrieve(use_embeddings, scored) : scored \in Candidates(use_embeddings)} :
            use_embeddings \in BOOLEAN }

ChatInit ==
    /\ pc = "idle"
    /\ request = None
    /\ kb_response = None
    /\ kb_trace = NoTrace
    /\ search_response = None
    /\ search_trace = NoSearchTrace
    /\ log = <<>>
    /\ response = NoResponse
    /\ history = <<>>
    /\ nreq = 0

\* A chat request arrives.
ChatReceive ==
    /\ pc \in {"idle", "done"}
    /\ nreq < MaxRequests
    /\ \E id \in ChatIds : request' = [chat_id |-> id, message |-> QueryText]
    /\ pc' = "kb"
    /\ nreq' = nreq + 1
    /\ kb_response' = None
    /\ kb_trace' = NoTrace
    /\ search_response' = None
    /\ search_trace' = NoSearchTrace
    /\ log' = <<>>
    /\ response' = NoResponse
    /\ UNCHANGED history

\* The Router after the knowledge-base call returned kb (with trace tr).
KbStep(kb, tr) ==
    /\ kb_trace' = tr
    /\ IF kb = Raised
         THEN /\ kb_response' = None
              /\ response' = InternalServerError
              /\ pc' = "save"
         ELSE /\ kb_response' = kb
              /\ IF KbHasAnswer(kb)
                   THEN /\ response' = KbAnswer(kb)
                        /\ pc' = "save"
                   ELSE /\ response' = response
                        /\ pc' = "search"
    /\ UNCHANGED <<request, search_response, search_trace, history, nreq>>

\* kb_response = await query_knowledge_base(request.message): the knowledge
\* base retrieves. Without a best match it answers at once and the Router
\* evaluates kb_has_answer; with one it goes on to the enhancer.
ChatKbRetrieve ==
    /\ pc = "kb"
    /\ log' = Append(log, "kb")
    /\ \E r \in Retrievals :
         IF r.matched
           THEN /\ kb_trace' = KbTrace(r, "", None, FALSE, None)
                /\ pc' = "kb_enhance"
                /\ UNCHANGED <<request, kb_response, search_response, search_trace,
                               response, history, nreq>>
           ELSE KbStep(QueryService("200", MissResponse(r)),
                       KbTrace(Brief(r), "", None, FALSE, None))

\* The knowledge base calls the enhancer and answers; the Router evaluates
\* kb_has_answer.
ChatKbAnswer ==
    /\ pc = "kb_enhance"
    /\ log' = Append(log, "kb_enhance")
    /\ \E gem \in GeminiCalls :
         LET q == AnswerFrom(kb_trace.retrieval, gem)
         IN KbStep(QueryService("200", q.resp), q.trace)

\* The same call when the knowledge-base service fails or is unreachable.
ChatKbFails ==
    /\ pc = "kb"
    /\ log' = Append(log, "kb")
    /\ \E outcome \in TransportOutcomes \ {"200"} :
         KbStep(QueryService(outcome, None), NoTrace)

\* The Router after the search call returned sr.
SearchStep(sr, tr, made) ==
    /\ log' = log \o <<"search">> \o made
    /\ search_trace' = tr
    /\ IF sr = Raised
         THEN /\ search_response' = None
              /\ response' = InternalServerError
         ELSE /\ search_response' = sr
              /\ response' = SearchAnswer(sr)
    /\ pc' = "save"
    /\ UNCHANGED <<request, kb_response, kb_trace, history, nreq>>

\* search_response = await query_search_service(request.message), the search
\* service answering, and the choice of the response.
ChatSearchLookup ==
    /\ pc = "search"
    /\ \E run \in SearchRuns :
         SearchStep(QueryService("200", run.resp),
                    SearchTrace(TRUE, run.all_empty, run.providers_empty), run.calls)

\* The same call when the search service fails or is unreachable.
ChatSearchFails ==
    /\ pc = "search"
    /\ \E outcome \in TransportOutcomes \ {"200"} :
         SearchStep(QueryService(outcome, None), NoSearchTrace, <<>>)

\* The HistoryEntry the chat service posts ("timestamp": None).
Turn(chat_id, message, sender) ==
    [chat_id |-> chat_id, message |-> message, sender |-> sender]

\* message_doc of the file-based storage: the entry with its timestamp and
\* "id": f"{entry.chat_id}_{len(load_history_from_file())}", n being the
\* length of the stored list.
message_doc(entry, timestamp, n) ==
    [ chat_id |-> entry.chat_id, message |-> entry.message, sender |-> entry.sender,
      timestamp |-> timestamp, id |-> entry.chat_id \o "_" \o ToString(n) ]

\* POST /history: the entry is stored with the time of the save; the saves
\* are separate requests, so that each is later than the ones stored before
\* it (the time is kept as the number of the save).
save_message(store, entry) ==
    Append(store, message_doc(entry, Len(store) + 1, Len(store)))

\* A mutant: the assistant turn is posted before the user message.
SaveAssistantFirst(store, chat_id, message, text, o1, o2) ==
    LET store1 == IF o1 = "200" THEN save_message(store, Turn(chat_id, text, "assistant"))
                                ELSE store
    IN IF o1 \in RequestException THEN store1
       ELSE IF o2 = "200" THEN save_message(store1, Turn(chat_id, message, "user")) ELSE store1

\* save_to_history: two posts to the history service; a post is stored when
\* the service answers 200; an exception of the first post skips the second,
\* and is caught.
save_to_history(store, chat_id, message, text, o1, o2) ==
    LET store1 == IF o1 = "200" THEN save_message(store, Turn(chat_id, message, "user"))
                                ELSE store
    IN IF o1 \in RequestException THEN store1
       ELSE IF o2 = "200" THEN save_message(store1, Turn(chat_id, text, "assistant")) ELSE store1

\* sorted(messages, key=lambda x: x.get("timestamp", "")): a stable sort.
RECURSIVE InsertByTimestamp(_, _)
InsertByTimestamp(sorted, m) ==
    IF sorted = <<>> THEN <<m>>
    ELSE IF Head(sorted).timestamp <= m.timestamp
           THEN <<Head(sorted)>> \o InsertByTimestamp(Tail(sorted), m)
           ELSE <<m>> \o sorted

RECURSIVE SortByTimestamp(_, _)
SortByTimestamp(sorted, rest) ==
    IF rest = <<>> THEN sorted
    ELSE SortByTimestamp(InsertByTimestamp(sorted, Head(rest)), Tail(rest))

\* GET /history/{chat_id} (limit = 50): the messages of the conversation,
\* by time.
get_chat_history_limit(store, chat_id, limit) ==
    LET messages == SelectSeq(store, LAMBDA msg : msg.chat_id = chat_id)
    IN FirstN(SortByTimestamp(<<>>, messages), limit)

get_chat_history(store, chat_id) == get_chat_history_limit(store, chat_id, 50)

\* A mutant: a post that the history service does not store turns the
\* request into an error.
ChatSaveOrAbort ==
    /\ pc = "save"
    /\ \E o1 \in HistoryOutcomes, o2 \in HistoryOutcomes :
         /\ history' = save_to_history(history, request.chat_id, request.message,
                          IF response.status = 500 THEN SystemErrorText ELSE response.response,
                          o1, o2)
         /\ response' = IF o1 = "200" /\ o2 = "200" THEN response ELSE InternalServerError
    /\ log' = Append(log, "history")
    /\ pc' = "done"
    /\ UNCHANGED <<request, kb_response, kb_trace, search_response, search_trace, nreq>>

\* await save_to_history(...) and the return of the response (or, on the
\* error path, of the HTTP 500).
ChatSaveAndReturn ==
    /\ pc = "save"
    /\ \E o1 \in HistoryOutcomes, o2 \in HistoryOutcomes :
         history' = save_to_history(history, request.chat_id, request.message,
                        IF response.status = 500 THEN SystemErrorText ELSE response.response,
                        o1, o2)
    /\ log' = Append(log, "history")
    /\ pc' = "done"
    /\ UNCHANGED <<request, kb_response, kb_trace, search_response, search_trace,
                   response, nreq>>

ChatNext ==
    \/ ChatReceive /\ UNCHANGED <<chunkVars, ingestVars, queryVars, historyVars>>
    \/ ChatKbRetrieve /\ UNCHANGED <<chunkVars, ingestVars, queryVars, historyVars>>
    \/ ChatKbAnswer /\ UNCHANGED <<chunkVars, ingestVars, queryVars, historyVars>>
    \/ ChatKbFails /\ UNCHANGED <<chunkVars, ingestVars, queryVars, historyVars>>
    \/ ChatSearchLookup /\ UNCHANGED <<chunkVars, ingestVars, queryVars, historyVars>>
    \/ ChatSearchFails /\ UNCHANGED <<chunkVars, ingestVars, queryVars, historyVars>>
    \/ ChatSaveAndReturn /\ UNCHANGED <<chunkVars, ingestVars, queryVars, historyVars>>

(***************************************************************************)
(* The knowledge-base query: GET /query, in either variant                 *)
(***************************************************************************)
\* CONFIDENCE_THRESHOLD = float(os.getenv("CONFIDENCE_THRESHOLD", "0.15")):
\* the default and two other settings, in thousandths.
ConfidenceThresholds == {150, 380, 600}

\* A query on the lexical index (a text and the chunks stored) or on the
\* embeddings index (the nearest chunks found for the text).
QueryInit ==
    /\ USE_EMBEDDINGS \in BOOLEAN
    /\ CONFIDENCE_THRESHOLD \in ConfidenceThresholds
    /\ IF USE_EMBEDDINGS
         THEN qText = "What is Python?" /\ qDocs = <<>> /\ qResults \in QueryResults
         ELSE qText \in QueryStrings /\ qDocs \in LexicalStores /\ qResults = <<>>
    /\ qScores = <<>>
    /\ qRetrieval = NoMatch("", FALSE)
    /\ qResponse = None
    /\ qPc = "scan"

\* No query in progress (the other specifications leave it there).
QueryIdle ==
    /\ qText = "" /\ qDocs = <<>> /\ qScores = <<>>
    /\ qRetrieval = NoMatch("", FALSE) /\ qResponse = None /\ qPc = "done"
    /\ qResults = <<>> /\ USE_EMBEDDINGS = FALSE /\ CONFIDENCE_THRESHOLD = 150

queryConfig == <<qText, qDocs, qResults, USE_EMBEDDINGS, CONFIDENCE_THRESHOLD>>

\* The embeddings branch up to the await of the enhancer with a best match,
\* to the miss response without one.
EmbeddingsScan ==
    /\ qPc = "scan"
    /\ USE_EMBEDDINGS
    /\ LET scores == WithConfidence(qResults)
           r == RetrieveEmbeddings(scores)
       IN /\ qScores' = scores
          /\ qRetrieval' = r
          /\ qResponse' = IF r.matched THEN qResponse ELSE MissResponse(r)
          /\ qPc' = IF r.matched THEN "enhance" ELSE "done"
    /\ UNCHANGED queryConfig

\* The enhancer returns; final_answer, is_useful and the response.
EmbeddingsAnswer ==
    /\ qPc = "enhance"
    /\ USE_EMBEDDINGS
    /\ \E gem \in GeminiCalls : qResponse' = AnswerFrom(qRetrieval, gem).resp
    /\ qPc' = "done"
    /\ UNCHANGED <<queryConfig, qScores, qRetrieval>>

\* The scoring loop, the sort and the choice of the context: up to the await
\* of the enhancer with a best match, to the miss response without one.
TextSearchScan ==
    /\ qPc = "scan"
    /\ ~USE_EMBEDDINGS
    /\ LET scores == ScoreStore(qText, qDocs)
           r == RetrieveText(ScoredChunks(qDocs, scores))
       IN /\ qScores' = scores
          /\ qRetrieval' = r
          /\ qResponse' = IF r.matched THEN qResponse ELSE MissResponse(r)
          /\ qPc' = IF r.matched THEN "enhance" ELSE "done"
    /\ UNCHANGED queryConfig

\* The enhancer returns; final_answer, is_useful and the response.
TextSearchAnswer ==
    /\ qPc = "enhance"
    /\ ~USE_EMBEDDINGS
    /\ \E gem \in GeminiCalls : qResponse' = AnswerFrom(qRetrieval, gem).resp
    /\ qPc' = "done"
    /\ UNCHANGED <<queryConfig, qScores, qRetrieval>>

QueryNext ==
    \/ TextSearchScan /\ UNCHANGED <<chunkVars, ingestVars, chatVars, historyVars>>
    \/ TextSearchAnswer /\ UNCHANGED <<chunkVars, ingestVars, chatVars, historyVars>>
    \/ EmbeddingsScan /\ UNCHANGED <<chunkVars, ingestVars, chatVars, historyVars>>
    \/ EmbeddingsAnswer /\ UNCHANGED <<chunkVars, ingestVars, chatVars, historyVars>>

(***************************************************************************)
(* History service with the file-based storage: POST /history,             *)
(* GET /history/{chat_id}, GET /history/{chat_id}/recent and               *)
(* DELETE /history/{chat_id}                                               *)
(***************************************************************************)
\* Bound: the number of saves and deletes served.
MaxHistoryOps == 4

HistoryChatIds == {"chat-1", "chat-2"}
\* The sender is stored as posted and read by no handler: the posts
\* alternate between the two senders, as the chat service posts them.
SenderOf(n) == IF n % 2 = 1 THEN "user" ELSE "assistant"
\* The timestamp of a posted entry: absent (the chat service posts None) or
\* a time chosen by the client. Times are numbers; the clock of the service
\* starts after the times a client may choose.
ClientTimes == {1}
EntryTimestamps ==
    {[given |-> FALSE, value |-> 0]} \cup {[given |-> TRUE, value |-> t] : t \in ClientTimes}
\* The values of the query parameters limit (default 50) and count
\* (default 10).
Limits == {2, 50}
Counts == {2, 10}

HistoryOutput(op, chat_id, n, messages, id, deleted_count) ==
    [ op |-> op, chat_id |-> chat_id, n |-> n, messages |-> messages, id |-> id,
      deleted_count |-> deleted_count ]
NoOutput == HistoryOutput("none", "", 0, <<>>, "", 0)

\* The storage file holds [] when the service starts.
HistoryInit ==
    /\ hStore = <<>>
    /\ hClock = 1
    /\ hOps = 0
    /\ hOut = NoOutput

\* The history service at rest (the other specifications leave it there).
HistoryIdle == HistoryInit

\* sorted(chat_messages, key=..., reverse=True): a stable sort, latest first.
RECURSIVE InsertByTimestampReverse(_, _)
InsertByTimestampReverse(sorted, m) ==
    IF sorted = <<>> THEN <<m>>
    ELSE IF Head(sorted).timestamp >= m.timestamp
           THEN <<Head(sorted)>> \o InsertByTimestampReverse(Tail(sorted), m)
           ELSE <<m>> \o sorted

RECURSIVE SortByTimestampReverse(_, _)
SortByTimestampReverse(sorted, rest) ==
    IF rest = <<>> THEN sorted
    ELSE SortByTimestampReverse(InsertByTimestampReverse(sorted, Head(rest)), Tail(rest))

Reversed(seq) == [k \in 1..Len(seq) |-> seq[Len(seq) + 1 - k]]

\* The dict of a message in the answer of get_recent_messages.
RecentMessage(msg) ==
    [message |-> msg.message, sender |-> msg.sender, timestamp |-> msg.timestamp]

\* GET /history/{chat_id}/recent: the count latest messages, in time order.
get_recent_messages(store, chat_id, count) ==
    LET chat_messages ==
            FirstN(SortByTimestampReverse(<<>>,
                       SelectSeq(store, LAMBDA msg : msg.chat_id = chat_id)), count)
    IN [k \in 1..Len(chat_messages) |-> RecentMessage(Reversed(chat_messages)[k])]

\* A mutant: the delete empties the file.
DeleteEverything(store, chat_id) ==
    [history |-> <<>>, deleted_count |-> Len(store)]

\* DELETE /history/{chat_id}: the list without the messages of chat_id and
\* the number of messages removed.
delete_chat_history(store, chat_id) ==
    LET kept == SelectSeq(store, LAMBDA msg : msg.chat_id # chat_id)
    IN [history |-> kept, deleted_count |-> Len(store) - Len(kept)]

\* POST /history: the entry gets the time of the service unless it carries
\* one, and its id, and is appended to the file. (The text of the message
\* is kept as the number of the request that posted it.)
HistorySave ==
    /\ hOps < MaxHistoryOps
    /\ \E chat_id \in HistoryChatIds, ts \in EntryTimestamps :
         LET entry == [chat_id |-> chat_id, message |-> hOps + 1,
                       sender |-> SenderOf(hOps + 1)]
             utcnow == hClock + 1
             timestamp == IF ts.given THEN ts.value ELSE utcnow
             doc == message_doc(entry, timestamp, Len(hStore))
         IN /\ hStore' = Append(hStore, doc)
            /\ hClock' = utcnow
            /\ hOut' = HistoryOutput("save", chat_id, 0, <<>>, doc.id, 0)
    /\ hOps' = hOps + 1

\* GET /history/{chat_id}?limit=n
HistoryList ==
    /\ \E chat_id \in HistoryChatIds, limit \in Limits :
         hOut' = HistoryOutput("list", chat_id, limit,
                               get_chat_history_limit(hStore, chat_id, limit), "", 0)
    /\ UNCHANGED <<hStore, hClock, hOps>>

\* GET /history/{chat_id}/recent?count=n
HistoryRecent ==
    /\ \E chat_id \in HistoryChatIds, count \in Counts :
         hOut' = HistoryOutput("recent", chat_id, count,
                               get_recent_messages(hStore, chat_id, count), "", 0)
    /\ UNCHANGED <<hStore, hClock, hOps>>

\* DELETE /history/{chat_id}
HistoryDelete ==
    /\ hOps < MaxHistoryOps
    /\ \E chat_id \in HistoryChatIds :
         LET deleted == delete_chat_history(hStore, chat_id)
         IN /\ hStore' = deleted.history
            /\ hOut' = HistoryOutput("delete", chat_id, 0, <<>>, "", deleted.deleted_count)
    /\ hOps' = hOps + 1
    /\ UNCHANGED hClock

HistoryNext ==
    \/ HistorySave /\ UNCHANGED <<chunkVars, ingestVars, chatVars, queryVars>>
    \/ HistoryList /\ UNCHANGED <<chunkVars, ingestVars, chatVars, queryVars>>
    \/ HistoryRecent /\ UNCHANGED <<chunkVars, ingestVars, chatVars, queryVars>>
    \/ HistoryDelete /\ UNCHANGED <<chunkVars, ingestVars, chatVars, queryVars>>

(***************************************************************************)
(* The specifications                                                      *)
(***************************************************************************)
\* The chunker at rest (the other specifications leave it there).
ChunkIdle ==
    /\ cN = 0 /\ cSize = 1 /\ cOverlap = 0 /\ cStart = 0 /\ cChunks = <<>> /\ cPc = "done"

\* The chunker alone, over every text length, window and overlap in bounds.
ChunkSpecInit == ChunkInit /\ IngestInit /\ ChatInit /\ QueryIdle /\ HistoryIdle
ChunkSpec == ChunkSpecInit /\ [][ChunkNext]_vars

\* The ingestion requests against the index.
Init == ChunkIdle /\ IngestInit /\ ChatInit /\ QueryIdle /\ HistoryIdle
Spec == Init /\ [][IngestNext]_vars

\* The chat requests through the tiers.
ChatSpecInit == ChunkIdle /\ IngestInit /\ ChatInit /\ QueryIdle /\ HistoryIdle
ChatSpec == ChatSpecInit /\ [][ChatNext]_vars

\* The knowledge-base queries, over the queries and indexes in bounds.
QuerySpecInit == ChunkIdle /\ IngestInit /\ ChatInit /\ QueryInit /\ HistoryIdle
QuerySpec == QuerySpecInit /\ [][QueryNext]_vars

\* The history service, over the saves, listings and deletes in bounds.
HistorySpecInit == ChunkIdle /\ IngestInit /\ ChatInit /\ QueryIdle /\ HistoryInit
HistorySpec == HistorySpecInit /\ [][HistoryNext]_vars

(***************************************************************************)
(* Claims about the chunker (checked under ChunkSpec)                      *)
(***************************************************************************)
ChunkDone == cPc = "done"
Stride == cSize - cOverlap
LastChunk == cChunks[Len(cChunks)]

\* C5: the chunker terminates with a finite chunk list for every text and
\* every chunk_size >= 1 and overlap >= 0, overlap >= chunk_size included: at
\* each step of the loop the start index moves forward by at least one token.
C5_StartForcedForward ==
    [][(cPc = "loop" /\ cPc' = "loop") => cStart' > cStart]_vars

\* C6: with overlap < chunk_size the token ranges of the chunks cover [0, N)
\* without gaps, and consecutive chunks share exactly `overlap` tokens (the
\* pair that holds the final chunk included).
C6_ChunkCoverage ==
    (ChunkDone /\ cOverlap < cSize) =>
        /\ (cN = 0 <=> cChunks = <<>>)
        /\ cN > 0 => (cChunks[1].start = 0 /\ LastChunk.end = cN)
        /\ \A i \in 1..Len(cChunks) : cChunks[i].start < cChunks[i].end
        /\ \A i \in 1..(Len(cChunks) - 1) :
             /\ cChunks[i + 1].start <= cChunks[i].end
             /\ cChunks[i + 1].start > cChunks[i].start
             /\ cChunks[i + 1].end >= cChunks[i].end
             /\ cChunks[i].end - cChunks[i + 1].start = cOverlap

\* C6 witness: a finished run with a real overlap and at least three chunks.
C6_Witness ==
    ChunkDone /\ cOverlap >= 1 /\ cOverlap < cSize /\ Len(cChunks) >= 3

\* C7 as stated: with overlap < chunk_size the chunker emits one chunk for
\* each start index 0, (W-O), 2(W-O), ... smaller than N (so 3 chunks for 9
\* tokens, W = 5, O = 1).
C7_OneChunkPerStartBelowN ==
    (ChunkDone /\ cOverlap < cSize) =>
        /\ Len(cChunks) = Cardinality({k \in 0..cN : k * Stride < cN})
        /\ \A i \in 1..Len(cChunks) : cChunks[i].start = (i - 1) * Stride

\* C7 amended: with overlap < chunk_size the chunker emits one chunk for each
\* start index 0, (W-O), 2(W-O), ... up to and including the first one whose
\* window reaches the end of the tokens (start + W >= N), and stops there; 9
\* tokens with W = 5 and O = 1 give the 2 chunks [0, 5) and [4, 9).
C7_ChunksUntilWindowReachesEnd ==
    (ChunkDone /\ cOverlap < cSize) =>
        /\ (cN = 0 <=> cChunks = <<>>)
        /\ \A i \in 1..Len(cChunks) :
             /\ cChunks[i].start = (i - 1) * Stride
             /\ cChunks[i].end = Min(cChunks[i].start + cSize, cN)
             /\ cChunks[i].end - cChunks[i].start <= cSize
             /\ (i < Len(cChunks) => cChunks[i].start + cSize < cN)
             /\ (i = Len(cChunks) => cChunks[i].start + cSize >= cN)
        /\ (cN = 9 /\ cSize = 5 /\ cOverlap = 1) =>
             cChunks = << [start |-> 0, end |-> 5], [start |-> 4, end |-> 9] >>

\* C7 witness: the 9-token document with W = 5 and O = 1 has been chunked.
C7_Witness ==
    ChunkDone /\ cN = 9 /\ cSize = 5 /\ cOverlap = 1 /\ Len(cChunks) = 2

(***************************************************************************)
(* Claims about ingestion (checked under Spec)                             *)
(***************************************************************************)
\* The index entries that request c added for its k-th file.
EntriesFrom(c, k) == {i \in 1..Len(document_store) : document_store[i].from = <<c, k>>}
EntriesOf(c) == {i \in 1..Len(document_store) : document_store[i].from[1] = c}
Returned(c) == calls[c].status = "returned"

\* Request c carried one file, and an ingestion request that had returned
\* before c arrived had carried a file of the same content.
SecondIngestion(c) ==
    /\ Returned(c)
    /\ calls[c].nfiles = 1
    /\ \E d \in calls[c].after : \E k \in 1..Len(calls[d].files) :
         calls[d].files[k] = calls[c].files[1]

\* C3: for every document text, ingesting the same content a second time in
\* a later ingestion call returns documents_added = 0 and duplicates_skipped
\* = 1 and leaves the index unchanged.
C3_SecondIngestIsDuplicate ==
    \A c \in CallIds :
        SecondIngestion(c) =>
            /\ calls[c].documents_added = 0
            /\ calls[c].duplicates_skipped = 1
            /\ EntriesOf(c) = {}

\* The same property for the documents that hold at least one word (the
\* documents that are split into at least one chunk): it holds.
SecondIngestOfWordsIsDuplicate ==
    \A c \in CallIds :
        ( /\ SecondIngestion(c)
          /\ \E t \in Texts : Md5(t) = calls[c].files[1] /\ Split(t) # <<>> ) =>
            /\ calls[c].documents_added = 0
            /\ calls[c].duplicates_skipped = 1
            /\ EntriesOf(c) = {}

\* C4: in every reachable state all index entries that share a content
\* fingerprint were created from one single document of one ingestion call
\* (and carry the fingerprint of that document); a document whose fingerprint
\* is already indexed adds no entry.
C4_OneDocumentPerFingerprint ==
    \A i \in 1..Len(document_store) :
        LET e == document_store[i]
        IN /\ calls[e.from[1]].files[e.from[2]] = e.content_hash
           /\ \A j \in 1..Len(document_store) :
                document_store[j].content_hash = e.content_hash
                    => document_store[j].from = e.from

\* C4 witness: one request carried the same content twice; the first copy is
\* indexed as several chunks and the second was skipped.
C4_Witness ==
    \E c \in CallIds :
        /\ Len(calls[c].files) >= 2
        /\ calls[c].files[1] = calls[c].files[2]
        /\ Cardinality(EntriesFrom(c, 1)) >= 2
        /\ EntriesFrom(c, 2) = {}
        /\ calls[c].duplicates_skipped >= 1

\* C11: in a multi-document batch a document with an input error
\* (undecodable bytes) is rejected on its own: the request does not fail as a
\* whole, it reads every file of the batch and returns the counts.
C11_BadDocumentRejectedAlone ==
    \A c \in CallIds :
        calls[c].status \in {"returned", "failed"} =>
            /\ calls[c].status = "returned"
            /\ Len(calls[c].files) = calls[c].nfiles

ObservedOf(e) == {j \in 1..Len(observed) : observed[j].from = e.from}
\* The number of chunks of the document with the fingerprint of record e.
ChunksOf(e) ==
    Len(split_text_with_overlap(CHOOSE t \in Texts : Md5(t) = e.content_hash))

\* C17: under any interleaving of ingestion requests and queries, a query
\* sees of every document either no chunk or all its chunks, and only chunks
\* of documents that passed the duplicate check (no second document of the
\* same fingerprint).
C17_QuerySeesWholeDocuments ==
    \A i \in 1..Len(observed) :
        LET e == observed[i] IN
        /\ {observed[j].chunk_id : j \in ObservedOf(e)} = 0..(ChunksOf(e) - 1)
        /\ Cardinality(ObservedOf(e)) = ChunksOf(e)
        /\ \A j \in 1..Len(observed) :
              observed[j].content_hash = e.content_hash => observed[j].from = e.from

\* C17 witness: a query scanned the index while a request that had already
\* added a document of several chunks was still reading its files.
C17_Witness ==
    \E c \in CallIds :
        /\ calls[c].status = "running"
        /\ Len(calls[c].files) < calls[c].nfiles
        /\ Cardinality({j \in 1..Len(observed) : observed[j].from[1] = c}) >= 2

(***************************************************************************)
(* Claims about the chat Router (checked under ChatSpec)                   *)
(***************************************************************************)
Called(name) == \E k \in 1..Len(log) : log[k] = name
Decided == pc \in {"save", "done"}
KbFailed == Called("kb") /\ pc # "kb_enhance" /\ kb_response = None
SearchFailed == Called("search") /\ search_response = None
EnhancerFailed == kb_trace.enhancer \in {"failed", "not_configured"}

\* The knowledge base answered relevant=true with a confidence above the
\* strict bar 0.4.
KbAnswersAboveStrictBar ==
    kb_response # None /\ kb_response.relevant /\ kb_response.confidence > 400

\* The text passes the Router's own validation: longer than 15 characters and
\* none of the Router's boilerplate prefixes.
PassesRouterValidation(t) ==
    /\ t.len > 15
    /\ t.head \notin {"no relevant information", "no sufficiently relevant",
                      "this document does not contain"}

AnsweredFromKb ==
    /\ ~Called("search")
    /\ Decided => (response.status = 200 /\ response.source = "knowledge_base")

\* C1 as stated: the knowledge base is queried first, and whenever it answers
\* the query above the strict threshold the Router returns the knowledge-base
\* tier and never invokes the search service (web search, direct generative).
C1_KbAnswerNeverFallsThrough ==
    /\ (log # <<>> => log[1] = "kb")
    /\ KbAnswersAboveStrictBar => AnsweredFromKb

\* C1 amended: the knowledge base is queried first, and whenever it answers
\* the query above the strict threshold with an answer that is longer than 15
\* characters and begins with none of the Router's boilerplate prefixes, the
\* Router returns the knowledge-base tier and never invokes the search
\* service.
C1_ValidKbAnswerNeverFallsThrough ==
    /\ (log # <<>> => log[1] = "kb")
    /\ (KbAnswersAboveStrictBar /\ PassesRouterValidation(kb_response.answer))
          => AnsweredFromKb

\* C1 witness: a request answered by the knowledge base above the strict bar.
C1_Witness ==
    /\ pc = "done"
    /\ KbAnswersAboveStrictBar
    /\ response.source = "knowledge_base"
    /\ log = <<"kb", "kb_enhance", "history">>

\* C2: when the knowledge base misses, every web-search provider returns no
\* content and the direct generative call returns nothing, the chat response
\* is the fixed apology with confidence 0 and source "fallback".
C2_AllMissGivesApology ==
    (pc = "done" /\ ~KbAnswersAboveStrictBar /\ search_trace.reached /\ search_trace.all_empty)
        => response = ChatResponse(200, ApologyText, "fallback", 0, <<>>)

\* C8 as stated: whenever retrieval finds a match above the acceptance
\* threshold and the enhancer errors, times out, is rate-limited or is not
\* configured, the Router returns the raw chunk text with source
\* "knowledge_base".
C8_EnhancerFailureKeepsRawChunk ==
    (pc = "done" /\ kb_response # None /\ kb_trace.retrieval.matched /\ EnhancerFailed)
        => /\ response.status = 200
           /\ response.source = "knowledge_base"
           /\ response.response = kb_trace.retrieval.best_match

\* C8 amended: ... and the raw chunk text is longer than 15 characters and
\* begins with none of the boilerplate prefixes ("no relevant information",
\* "no sufficiently relevant", "this document does not contain" and, in the
\* embedding variant, "i don't have information"), the Router returns the raw
\* chunk text with source "knowledge_base".
C8_EnhancerFailureKeepsValidRawChunk ==
    ( /\ pc = "done" /\ kb_response # None /\ kb_trace.retrieval.matched /\ EnhancerFailed
      /\ PassesRouterValidation(kb_trace.retrieval.best_match)
      /\ (kb_trace.retrieval.method = "embeddings"
            => kb_trace.retrieval.best_match.head # "i don't have information") )
        => /\ response.status = 200
           /\ response.source = "knowledge_base"
           /\ response.response = kb_trace.retrieval.best_match
           /\ ~Called("search")

\* C8 witness: the enhancer's call failed and the raw chunk was returned.
C8_Witness ==
    /\ pc = "done"
    /\ kb_trace.retrieval.matched
    /\ kb_trace.enhancer = "failed"
    /\ response.source = "knowledge_base"
    /\ response.response = kb_trace.retrieval.best_match

\* The refusal and boilerplate prefixes of the validation rule set.
RefusalPrefixes ==
    { "no relevant information", "this document does not contain", "i don't have",
      "i cannot", "i'm sorry", "based on the document" }
BeginsWithRefusal(t) == \E p \in RefusalPrefixes : StartsWith(t, p)

\* C13: the enhancer never returns as its enhancement a generated text of at
\* most 15 characters, one that begins with a refusal or boilerplate prefix
\* of the rule set, or one that echoes the first 100 characters of the
\* context.
C13_EnhancerRejectsBoilerplate ==
    kb_trace.enhanced # None =>
        /\ kb_trace.enhanced.len > 15
        /\ ~BeginsWithRefusal(kb_trace.enhanced)
        /\ ~kb_trace.echoed

\* C14: whenever retrieval finds a best chunk and the generated text begins
\* with a prefix of the rule set, the knowledge-base query answers
\* relevant=true with the raw chunk text.
C14_BoilerplateFallsBackToRawChunk ==
    ( /\ kb_response # None
      /\ kb_trace.retrieval.matched
      /\ kb_trace.generated # None
      /\ BeginsWithRefusal(kb_trace.generated) )
        => /\ kb_response.relevant
           /\ kb_response.answer = kb_trace.retrieval.best_match

\* C15: no answer of the web-search tier or of the direct-generative tier is
\* returned to the user unless it is non-empty and passes the validation
\* rule set: a response that carries a search-tier source never begins with
\* a refusal or boilerplate prefix.
C15_SearchAnswerIsValidated ==
    (pc = "done" /\ response.status = 200
       /\ response.source \notin {"knowledge_base", "fallback"})
        => /\ Truthy(response.response)
           /\ ~BeginsWithRefusal(response.response)

InUnitInterval(confidence) == 0 <= confidence /\ confidence <= 1000

\* C16: every confidence returned by the knowledge-base query and by the
\* chat Router lies in [0, 1] (0..1000 thousandths), for both index variants.
C16_ConfidenceInUnitInterval ==
    /\ kb_response # None => InUnitInterval(kb_response.confidence)
    /\ InUnitInterval(kb_trace.retrieval.best_score)
    /\ InUnitInterval(response.confidence)
    /\ \A k \in 1..Len(kb_trace.retrieval.source_docs) :
          InUnitInterval(kb_trace.retrieval.source_docs[k].score)

\* C16 witness: an embeddings query answered with the confidence of its
\* best chunk, which the Router returned.
C16_Witness ==
    /\ pc = "done"
    /\ kb_response # None
    /\ kb_response.processing_method = "embeddings"
    /\ kb_response.relevant
    /\ kb_response.confidence = 900
    /\ response.confidence = 900

\* C20: within one query no tier and no external capability call is
\* retried: the knowledge-base lookup, each web-search provider and the
\* generative capability are each called at most once.
C20_NoCapabilityCalledTwice ==
    \A j \in 1..Len(log), k \in 1..Len(log) : log[j] = log[k] => j = k

\* The search service answered the Router's call with an answer.
SearchAnswered == Called("search") /\ search_response # None /\ Truthy(search_response.answer)

\* C18 as stated: when the knowledge base cannot answer and the web search
\* produces an answer the source of the chat response equals "search"; a
\* failed search gives "fallback", a knowledge-base answer "knowledge_base".
C18_SourceIsSearch ==
    (pc = "done" /\ response.status = 200) =>
        /\ ~Called("search") => response.source = "knowledge_base"
        /\ SearchAnswered => response.source = "search"
        /\ (Called("search") /\ ~SearchAnswered) => response.source = "fallback"

\* What the Router does instead: the source of a search answer is "search_"
\* followed by the source the search service names.
SearchSourceIsPrefixed ==
    (pc = "done" /\ response.status = 200 /\ SearchAnswered) =>
        /\ response.source = "search_" \o search_response.source
        /\ search_response.source \in
              { "ddgs", "ddgs_gemini", "duckduckgo_instant",
                "duckduckgo_instant_gemini", "duckduckgo_scrape",
                "duckduckgo_scrape_gemini", "gemini_direct", "fallback" }

\* C9: a failure, timeout or unreachability of the knowledge-base service,
\* of the search service or of the enhancer never aborts a chat request: no
\* request ends in an error response; a failed knowledge-base call is
\* followed by the search lookup, failed calls of both end in the apology,
\* and after a failed enhancement the answer is the raw chunk or the search
\* tier was tried.
C9_FailuresNeverAbort ==
    /\ response.status # 500
    /\ pc = "done" => (response.status = 200 /\ Truthy(response.response))
    /\ (Decided /\ KbFailed) => Called("search")
    /\ (Decided /\ KbFailed /\ SearchFailed)
          => response = ChatResponse(200, ApologyText, "fallback", 0, <<>>)
    /\ (Decided /\ kb_trace.retrieval.matched /\ EnhancerFailed)
          => \/ (response.source = "knowledge_base"
                   /\ response.response = kb_trace.retrieval.best_match)
             \/ Called("search")

\* C9 witness: the knowledge-base call and the search call both failed and
\* the request completed with an answer.
C9_Witness ==
    pc = "done" /\ KbFailed /\ SearchFailed /\ response.status = 200

\* C10: when the knowledge-base service and the search service both fail, the
\* request does not end in a normal answer: it surfaces a "service
\* unavailable" condition.
C10_BothUnreachableIsNotAnAnswer ==
    (pc = "done" /\ KbFailed /\ SearchFailed) => response.status # 200

(***************************************************************************)
(* Claims about the lexical query (checked under QuerySpec)                *)
(***************************************************************************)
\* Within the bounds every weighted score is a whole number of thousandths,
\* so that the combined score kept in thousandths is the exact sum.
ScoresAreWholeThousandths ==
    ~USE_EMBEDDINGS =>
    \A k \in 1..Len(qScores) :
        LET sc == qScores[k]
        IN /\ (sc.overlap_score.num * 300) % sc.overlap_score.den = 0
           /\ (sc.substring_score.num * 300) % sc.substring_score.den = 0
           /\ (sc.filename_score.num * 100) % sc.filename_score.den = 0
           /\ (sc.specific_score.num * 100) % sc.specific_score.den = 0

\* Every score is a ratio in [0, 1] and the combined score lies in [0, 1].
ScoresInUnitInterval ==
    ~USE_EMBEDDINGS =>
    \A k \in 1..Len(qScores) :
        LET sc == qScores[k]
            Unit(r) == 0 <= r.num /\ r.num <= r.den
        IN /\ Unit(sc.overlap_score) /\ Unit(sc.substring_score) /\ Unit(sc.phrase_score)
           /\ Unit(sc.filename_score) /\ Unit(sc.specific_score)
           /\ 0 <= sc.combined_score /\ sc.combined_score <= 1000

\* The index and the query of the claim.
PythonDoc == "Python is a high-level language. Python supports OOP."
WhatIsPythonScored ==
    /\ ~USE_EMBEDDINGS
    /\ qText = "What is Python?"
    /\ Len(qDocs) = 1 /\ qDocs[1].text = PythonDoc
    /\ qPc # "scan"

\* C19: with the lexical index holding the single document "Python is a
\* high-level language. Python supports OOP.", the query "What is Python?"
\* gets an overlap score of at least 0.5 and a combined score above 0.3, and
\* the query answers relevant=true.
C19_WhatIsPythonIsRelevant ==
    WhatIsPythonScored =>
        /\ 2 * qScores[1].overlap_score.num >= qScores[1].overlap_score.den
        /\ qScores[1].combined_score > 300
        /\ qPc = "done" => qResponse.relevant

(***************************************************************************)
(* Claims about the history of a conversation (checked under ChatSpec)     *)
(***************************************************************************)
\* The two turns a request posts, without the time of the save.
UserTurn == Turn(request.chat_id, request.message, "user")
AssistantTurn == Turn(request.chat_id, response.response, "assistant")
Posted(m) == Turn(m.chat_id, m.message, m.sender)
PostedAll(store) == [k \in 1..Len(store) |-> Posted(store[k])]

\* The step in which a request that answers saves its turns and returns.
AnswerReturns == pc = "save" /\ pc' = "done" /\ response.status = 200

\* C21 as stated: every chat request that returns an answer appends exactly
\* two turns to the history, first the user message and then the assistant
\* turn whose text is the returned response, only after the decision; the
\* listing of the conversation returns them in this order.
C21_AnswerAppendsTwoTurns ==
    [][ /\ history' # history => pc = "save"
        /\ AnswerReturns =>
             /\ PostedAll(history') = PostedAll(history) \o <<UserTurn, AssistantTurn>>
             /\ PostedAll(get_chat_history(history', request.chat_id))
                  = PostedAll(get_chat_history(history, request.chat_id))
                      \o <<UserTurn, AssistantTurn>> ]_vars

\* C21 amended: a chat request that returns an answer posts the user message
\* and then the assistant turn whose text is the returned response, only
\* after the decision; each post is stored only if the history service
\* accepts it, so the request appends these two turns in this order when
\* both posts are accepted and otherwise one of them or none; nothing else
\* changes the history, and the listing of the conversation returns its
\* turns in the order they were stored.
C21_AnswerPostsTwoTurnsInOrder ==
    [][ /\ history' # history => pc = "save"
        /\ AnswerReturns =>
             /\ PostedAll(history') \in
                  { PostedAll(history) \o appended :
                      appended \in { <<>>, <<UserTurn>>, <<AssistantTurn>>,
                                     <<UserTurn, AssistantTurn>> } }
             /\ PostedAll(save_to_history(history, request.chat_id, request.message,
                                          response.response, "200", "200"))
                  = PostedAll(history) \o <<UserTurn, AssistantTurn>>
             /\ get_chat_history(history', request.chat_id)
                  = SelectSeq(history', LAMBDA m : m.chat_id = request.chat_id) ]_vars

\* C21 witness: a request answered and both of its turns are listed, the
\* user message first.
C21_Witness ==
    /\ pc = "done" /\ response.status = 200
    /\ Len(history) >= 2
    /\ LET listed == get_chat_history(history, request.chat_id)
       IN /\ Len(listed) >= 2
          /\ Posted(listed[Len(listed) - 1]) = UserTurn
          /\ Posted(listed[Len(listed)]) = AssistantTurn

(***************************************************************************)
(* Claims about the relevance gate (checked under QuerySpec)               *)
(***************************************************************************)
\* The confidence of each chunk the query looked at: 1 - distance in the
\* embeddings variant, the combined score in the lexical variant.
ChunkConfidences ==
    [k \in 1..Len(qScores) |->
        IF USE_EMBEDDINGS THEN qScores[k].score ELSE qScores[k].combined_score]

\* Some chunk has a confidence above t.
TopExceeds(t) == \E k \in 1..Len(qScores) : ChunkConfidences[k] > t
\* At least n chunks have a confidence above t.
ManyExceed(n, t) == Cardinality({k \in 1..Len(qScores) : ChunkConfidences[k] > t}) >= n

EmbeddingsAnswered == USE_EMBEDDINGS /\ qPc = "done"

\* C22: in the embedding variant a retrieval is accepted (relevant=true) when
\* the best confidence exceeds the strict bar 0.4, or when it exceeds the
\* admission threshold 0.2 and several chunks above 0.15 are combined as
\* context; a retrieval whose top confidence does not exceed 0.2 is never
\* accepted.
C22_TwoTierAcceptance ==
    EmbeddingsAnswered =>
        /\ TopExceeds(400) => qResponse.relevant
        /\ (TopExceeds(200) /\ ManyExceed(2, 150)) => qResponse.relevant
        /\ ~TopExceeds(200) => ~qResponse.relevant

\* What the embeddings branch does: only a chunk above 0.4 becomes the best
\* match, so that nothing is accepted at or below 0.4.
EmbeddingsAcceptsOnlyAboveStrictBar ==
    (USE_EMBEDDINGS /\ qPc # "scan") =>
        /\ qRetrieval.matched <=> TopExceeds(400)
        /\ (qPc = "done" /\ qResponse.relevant) => TopExceeds(400)

\* C23: the relevance thresholds applied by a query are the configured
\* values: with the configured confidence threshold t a retrieval is
\* admitted exactly when its top confidence exceeds t.
C23_ThresholdIsConfigured ==
    qPc # "scan" => (qRetrieval.matched <=> TopExceeds(CONFIDENCE_THRESHOLD))

\* What the query does: the admission depends on the hard-coded bars 0.4
\* (embeddings) and 0.3 (lexical) only, whatever threshold is configured.
AdmissionIgnoresConfiguration ==
    qPc # "scan" =>
        (qRetrieval.matched <=> TopExceeds(IF USE_EMBEDDINGS THEN 400 ELSE 300))

(***************************************************************************)
(* Claims about the order of the tiers (checked under ChatSpec)            *)
(***************************************************************************)
\* The number of calls of a capability made for the current request.
Calls(name) == Cardinality({k \in 1..Len(log) : log[k] = name})
\* The position of the first call of a capability in the log (0: none).
FirstCall(name) ==
    IF Called(name) THEN CHOOSE k \in 1..Len(log) : log[k] = name /\ \A j \in 1..(k - 1) : log[j] # name
    ELSE 0

\* The knowledge-base lookup gave the Router an answer it accepts: relevant,
\* a confidence above 0.15 and a text that passes the Router's validation.
KbAccepted ==
    /\ kb_response # None
    /\ kb_response.relevant
    /\ kb_response.confidence > 150
    /\ Truthy(kb_response.answer)
    /\ PassesRouterValidation(kb_response.answer)

\* C24: whenever the knowledge-base lookup yields no accepted answer (empty or
\* low-confidence retrieval, relevant=false, boilerplate answer, failed call)
\* the Router goes to the search lookup and calls the search service exactly
\* once before it produces its decision.
C24_MissGoesToSearchOnce ==
    /\ (Called("kb") /\ pc \notin {"kb_enhance"} /\ ~KbAccepted /\ ~Decided) => pc = "search"
    /\ (Decided /\ ~KbAccepted) =>
          /\ Calls("search") = 1
          /\ FirstCall("kb") < FirstCall("search")
          /\ ~Called("history") \/ FirstCall("search") < FirstCall("history")

\* C24 witness: the knowledge base answered relevant=true with a boilerplate
\* text, and the Router decided after one call of the search service.
C24_Witness ==
    /\ Decided
    /\ kb_response # None /\ kb_response.relevant
    /\ ~PassesRouterValidation(kb_response.answer)
    /\ Calls("search") = 1

\* C25: the direct generative capability is called for a query only after
\* the knowledge base has missed and every web-search provider in use has
\* returned no content; once a tier has produced an answer no further tier is
\* tried.
C25_DirectGenerativeIsLast ==
    /\ Called("direct") =>
          /\ ~KbAccepted
          /\ search_trace.reached /\ search_trace.providers_empty
          /\ Calls("direct") = 1
          /\ \A k \in 1..Len(log) :
                log[k] \in {"kb", "kb_enhance", "search", "ddgs.text", "instant", "scrape"}
                    => k < FirstCall("direct")
    /\ (Decided /\ KbAccepted) => ~Called("search") /\ ~Called("direct")
    /\ (search_trace.reached /\ ~search_trace.providers_empty) => ~Called("direct")

\* C25 witness: the knowledge base missed, every provider was empty and the
\* direct generative answer became the response.
C25_Witness ==
    /\ pc = "done"
    /\ Called("direct")
    /\ search_trace.providers_empty
    /\ response.source = "search_gemini_direct"

(***************************************************************************)
(* Claims about the counts of an ingestion response (checked under Spec)   *)
(***************************************************************************)
\* The k-th file of request c had no words: its text splits into no chunk.
BlankFile(c, k) ==
    \E t \in Texts : Md5(t) = calls[c].files[k] /\ Split(t) = <<>>

\* The k-th file of request c was accepted: the index holds entries it
\* added, or it had no words (such a file is accepted and adds nothing).
AcceptedFile(c, k) == EntriesFrom(c, k) # {} \/ BlankFile(c, k)

\* The filenames of the accepted files among the first k of request c, in
\* the order in which the files were submitted.
RECURSIVE AcceptedNames(_, _)
AcceptedNames(c, k) ==
    IF k = 0 THEN <<>>
    ELSE IF AcceptedFile(c, k)
           THEN Append(AcceptedNames(c, k - 1), calls[c].names[k])
           ELSE AcceptedNames(c, k - 1)

RejectedFiles(c) == {k \in 1..Len(calls[c].files) : ~AcceptedFile(c, k)}

\* C26: when an ingestion request of n files has returned success, its
\* documents_added is the number of index entries the request appended, its
\* duplicates_skipped is the number of its files that were rejected, its
\* files_processed lists the accepted files in submission order, and
\* len(files_processed) + duplicates_skipped = n.
C26_CountsMatchTheIndex ==
    \A c \in CallIds :
        Returned(c) =>
            /\ Len(calls[c].files) = calls[c].nfiles
            /\ calls[c].documents_added = Cardinality(EntriesOf(c))
            /\ calls[c].duplicates_skipped = Cardinality(RejectedFiles(c))
            /\ calls[c].files_processed = AcceptedNames(c, calls[c].nfiles)
            /\ Len(calls[c].files_processed) + calls[c].duplicates_skipped
                   = calls[c].nfiles

\* A request of two files has returned: one file was rejected as a
\* duplicate, the other added at least two chunks.
C26_Witness ==
    \E c \in CallIds :
        /\ Returned(c)
        /\ calls[c].nfiles = 2
        /\ calls[c].duplicates_skipped = 1
        /\ Len(calls[c].files_processed) = 1
        /\ calls[c].documents_added >= 2

(***************************************************************************)
(* Claims about the life of an index entry (checked under Spec)            *)
(***************************************************************************)
\* The step is the scan of a query.
QueryStep == observed' # observed

\* The step is a pass of the ingestion loop that rejected a file as a
\* duplicate.
RejectStep ==
    \E c \in CallIds : calls'[c].duplicates_skipped = calls[c].duplicates_skipped + 1

\* Entry i of the index is the same entry after the step.
EntryKept(i) ==
    /\ i <= Len(document_store')
    /\ document_store'[i].text = document_store[i].text
    /\ document_store'[i].filename = document_store[i].filename
    /\ document_store'[i].chunk_id = document_store[i].chunk_id
    /\ document_store'[i].content_hash = document_store[i].content_hash
    /\ document_store'[i] = document_store[i]

\* C27: the index is append-only: every step of an ingestion request, of a
\* query or of a restart keeps every entry of the index at its place with
\* the same text, filename, chunk index and fingerprint; a query and the
\* rejection of a duplicate file leave the index as it was.
C27_IndexIsAppendOnly ==
    [][ /\ \A i \in 1..Len(document_store) : EntryKept(i)
        /\ (QueryStep \/ RejectStep) => document_store' = document_store
      ]_vars

\* The index holds several chunks, a duplicate file has been rejected, the
\* service has been restarted and a query has scanned the index as it is
\* now.
C27_Witness ==
    /\ Len(document_store) >= 2
    /\ \E c \in CallIds : calls[c].duplicates_skipped >= 1
    /\ restarts >= 1
    /\ observed = document_store

(***************************************************************************)
(* Claims about the ranking of the lexical query (checked under QuerySpec) *)
(***************************************************************************)
\* The lexical query has answered.
TextSearchAnswered == ~USE_EMBEDDINGS /\ qPc = "done" /\ qResponse # None

CombinedScores == {qScores[k].combined_score : k \in 1..Len(qScores)}

\* The scores listed with the source documents never increase.
RankedDescending(source_documents) ==
    \A k \in 1..(Len(source_documents) - 1) :
        source_documents[k].score >= source_documents[k + 1].score

\* C28: in the lexical variant a query is answered relevant=true only if
\* some stored chunk has a combined score above 0.3; the confidence of such
\* an answer is the greatest combined score over all the stored chunks, and
\* the source documents are listed by descending score, the best match
\* first.
C28_ConfidenceIsBestScore ==
    (TextSearchAnswered /\ qResponse.relevant) =>
        /\ \E s \in CombinedScores : s > 300
        /\ qResponse.confidence \in CombinedScores
        /\ \A s \in CombinedScores : s <= qResponse.confidence
        /\ qResponse.source_documents # <<>>
        /\ RankedDescending(qResponse.source_documents)
        /\ qResponse.source_documents[1].score = qResponse.confidence

\* A relevant answer over an index of two chunks that both pass the bar, the
\* second stored scoring higher than the first.
C28_Witness ==
    /\ TextSearchAnswered
    /\ qResponse.relevant
    /\ Len(qScores) = 2
    /\ qScores[1].combined_score > 300
    /\ qScores[2].combined_score > qScores[1].combined_score
    /\ qResponse.confidence = qScores[2].combined_score

(***************************************************************************)
(* Claims about the shape of a knowledge-base answer (checked under        *)
(* ChatSpec, where the Router receives it)                                 *)
(***************************************************************************)
\* The bar a chunk passes to be a best match, by variant (in thousandths).
AdmissionBar(processing_method) ==
    IF processing_method = "embeddings" THEN 400 ELSE 300

\* The shape of one answer q of the knowledge base.
WellShaped(q) ==
    /\ ~q.relevant => (q.confidence = 0 /\ q.source_documents = <<>>)
    /\ q.relevant =>
          /\ q.confidence > AdmissionBar(q.processing_method)
          /\ q.answer # None
          /\ q.answer.len > 10

\* C29: every answer of the knowledge base is well shaped: relevant=false
\* comes with confidence 0 and no source documents; relevant=true comes with
\* a confidence above 0.3 (lexical) or 0.4 (embeddings) and an answer longer
\* than 10 characters. So the confidence test of kb_has_answer (> 0.15)
\* passes for every answer marked relevant.
C29_RelevantPassesConfidenceGate ==
    kb_response # None =>
        /\ WellShaped(kb_response)
        /\ kb_response.relevant => kb_response.confidence > 150

\* The same shape for the answers of the query on real strings (QuerySpec).
QueryAnswersWellShaped ==
    (qPc = "done" /\ qResponse # None) => WellShaped(qResponse)

\* The Router holds a relevant lexical answer whose confidence lies between
\* the two bars, and has answered from it.
C29_Witness ==
    /\ kb_response # None
    /\ kb_response.relevant
    /\ kb_response.processing_method = "text_search"
    /\ kb_response.confidence < 400
    /\ response.source = "knowledge_base"

(***************************************************************************)
(* Claims about the shapes of a chat response (checked under ChatSpec)     *)
(***************************************************************************)
\* The chat service has chosen the response it returns.
ChatAnswered == response.status = 200

\* The response carries the answer, the confidence and the source documents
\* of the knowledge base.
KnowledgeBaseShape ==
    /\ response.source = "knowledge_base"
    /\ kb_response # None
    /\ response.response = kb_response.answer
    /\ response.confidence = kb_response.confidence
    /\ response.source_documents = kb_response.source_documents

\* The response carries the answer of the search service, confidence 0.5
\* and one provenance string that names the source the search service
\* reported.
SearchShape ==
    /\ HasPrefix(response.source, "search_")
    /\ search_response # None
    /\ response.source = "search_" \o search_response.source
    /\ response.response = search_response.answer
    /\ response.confidence = 500
    /\ response.source_documents = <<"Web search via " \o search_response.source>>

\* The response is the apology, with confidence 0 and no provenance.
FallbackShape ==
    /\ response.source = "fallback"
    /\ response.response = ApologyText
    /\ response.confidence = 0
    /\ response.source_documents = <<>>

ShapesHeld ==
    {s \in {"knowledge_base", "search", "fallback"} :
        \/ s = "knowledge_base" /\ KnowledgeBaseShape
        \/ s = "search" /\ SearchShape
        \/ s = "fallback" /\ FallbackShape}

AcceptStep(c) ==
    Len(calls'[c].files_processed) = Len(calls[c].files_processed) + 1

\* The chunks the chunker makes of the document with fingerprint h.
ChunksOfHash(h) == split_text_with_overlap(CHOOSE t \in Texts : Md5(t) = h)

\* C31: when a document that the chunker splits into k chunks is accepted,
\* the index gains exactly k entries, appended in order with chunk ids
\* 0..k-1; each carries the filename and the fingerprint of the document,
\* the text of its chunk and a chunk_length equal to the length of that
\* text.
C31_OneEntryPerChunk ==
    [][ \A c \in CallIds :
          AcceptStep(c) =>
            LET n == Len(calls'[c].files)
                h == calls'[c].files[n]
                chunks == ChunksOfHash(h)
                base == Len(document_store)
            IN /\ Len(document_store') = base + Len(chunks)
               /\ SubSeq(document_store', 1, base) = document_store
               /\ \A i \in 1..Len(chunks) :
                     LET e == document_store'[base + i]
                     IN /\ e.chunk_id = i - 1
                        /\ e.filename = calls'[c].names[n]
                        /\ e.content_hash = h
                        /\ e.text = chunks[i]
                        /\ e.chunk_length = Len(e.text)
      ]_vars

\* The index holds the entries of an accepted document of several chunks,
\* the last of them with a chunk id above 0.
C31_Witness ==
    \E c \in CallIds :
        /\ calls[c].files_processed # <<>>
        /\ \E i \in EntriesOf(c) : document_store[i].chunk_id >= 1

(***************************************************************************)
(* Claims about what the duplicate check reads (checked under Spec)        *)
(***************************************************************************)
\* The step is a pass of the ingestion loop of request c over one file.
FileStep(c) == Len(calls'[c].files) = Len(calls[c].files) + 1

IndexedHashes == {document_store[i].content_hash : i \in 1..Len(document_store)}
IndexedNames == {document_store[i].filename : i \in 1..Len(document_store)}

\* C32: the duplicate check reads the content fingerprint only: a file
\* whose fingerprint is not in the index is accepted, whatever its filename
\* (also the filename of an indexed document), a file whose fingerprint is in
\* the index is rejected, and in both cases the entries already in the index
\* stay.
C32_DedupByFingerprintOnly ==
    [][ \A c \in CallIds :
          FileStep(c) =>
            LET h == calls'[c].files[Len(calls'[c].files)]
            IN /\ (h \notin IndexedHashes) => AcceptStep(c)
               /\ (h \in IndexedHashes) =>
                     /\ ~AcceptStep(c)
                     /\ calls'[c].duplicates_skipped = calls[c].duplicates_skipped + 1
               /\ SubSeq(document_store', 1, Len(document_store)) = document_store
      ]_vars

\* The index holds the entries of two documents of different content that
\* were ingested under the same filename.
C32_Witness ==
    \E i, j \in 1..Len(document_store) :
        /\ i < j
        /\ document_store[i].filename = document_store[j].filename
        /\ document_store[i].content_hash # document_store[j].content_hash

(***************************************************************************)
(* Claims about concurrent ingestion requests (checked under Spec)         *)
(***************************************************************************)
\* Requests c and d overlapped in time: neither had returned when the other
\* arrived.
Concurrent(c, d) ==
    /\ c # d
    /\ calls[c].status # "idle" /\ calls[d].status # "idle"
    /\ d \notin calls[c].after /\ c \notin calls[d].after

\* The files of fingerprint h that the requests have passed over.
FilesOfHash(h) ==
    {p \in CallIds \X (1..MaxUploads) :
        p[2] <= Len(calls[p[1]].files) /\ calls[p[1]].files[p[2]] = h}

\* Fingerprint h was carried by two requests that overlapped in time.
CarriedConcurrently(h) ==
    \E p, q \in FilesOfHash(h) : Concurrent(p[1], q[1])

PassedHashes ==
    UNION {{calls[c].files[k] : k \in 1..Len(calls[c].files)} : c \in CallIds}

\* The entries of one file lie together in the index: no entry of another
\* file was written between them.
WritesNotInterleaved ==
    \A i, j, l \in 1..Len(document_store) :
        (i < j /\ j < l /\ document_store[i].from = document_store[l].from)
            => document_store[j].from = document_store[i].from

\* C33: of the files of one content carried by concurrent ingestion
\* requests, exactly one is accepted and adds the chunks of the document,
\* every other is reported as a duplicate; and the entries of a file are
\* never interleaved with the writes of another request.
C33_OneWriterPerContent ==
    /\ \A h \in PassedHashes :
          CarriedConcurrently(h) =>
              Cardinality({p \in FilesOfHash(h) : AcceptedFile(p[1], p[2])}) = 1
    /\ WritesNotInterleaved

\* The same property for the documents that hold at least one word: it
\* holds.
OneWriterPerContentWithWords ==
    /\ \A h \in PassedHashes :
          (CarriedConcurrently(h) /\ ChunksOfHash(h) # <<>>) =>
              /\ Cardinality({p \in FilesOfHash(h) : AcceptedFile(p[1], p[2])}) = 1
              /\ Cardinality({p \in FilesOfHash(h) : EntriesFrom(p[1], p[2]) # {}}) = 1
    /\ WritesNotInterleaved

\* Two requests that overlapped in time each carried a document of words of
\* the same content; one of them indexed it, the other skipped it.
ConcurrentDuplicateSkipped ==
    \E c, d \in CallIds :
        /\ Concurrent(c, d)
        /\ Len(calls[c].files) >= 1 /\ Len(calls[d].files) >= 1
        /\ calls[c].files[1] = calls[d].files[1]
        /\ Cardinality(EntriesFrom(c, 1)) >= 2
        /\ calls[d].duplicates_skipped = 1

(***************************************************************************)
(* Claims about the windows of the chunker (checked under ChunkSpec)       *)
(***************************************************************************)
StartsIncrease ==
    \A i \in 1..(Len(cChunks) - 1) : cChunks[i + 1].start > cChunks[i].start

ChunkSizesInRange ==
    \A i \in 1..Len(cChunks) :
        /\ cChunks[i].end - cChunks[i].start >= 1
        /\ cChunks[i].end - cChunks[i].start <= cSize

\* C34: for every chunk_size >= 1 and overlap >= 0 the start indices of
\* successive chunks strictly increase, and every chunk emitted holds
\* between 1 and chunk_size words.
C34_WindowsAdvance == StartsIncrease /\ ChunkSizesInRange

\* The same property for overlap < chunk_size: it holds.
WindowsAdvanceBelowChunkSize == cOverlap < cSize => C34_WindowsAdvance

\* The size of a chunk is in range for every overlap.
ChunkSizesAlwaysInRange == ChunkSizesInRange

\* A run with overlap < chunk_size that has emitted three chunks.
ThreeWindowsEmitted ==
    cOverlap >= 1 /\ cOverlap < cSize /\ Len(cChunks) >= 3

(***************************************************************************)
(* Claims about the text of a knowledge-base answer (checked under         *)
(* ChatSpec)                                                               *)
(***************************************************************************)
\* The knowledge base answers relevant=true in this step, after the
\* enhancer has returned.
RelevantAnswerStep ==
    pc = "kb_enhance" /\ kb_response' # None /\ kb_response'.relevant

\* Several chunks were joined as the context of the enhancer.
ContextCombined(r) == r.context # r.best_match

\* C35: the answer of a relevant knowledge-base response is the validated
\* output of the enhancer or, when the enhancer yields nothing, exactly the
\* text of the best chunk: one stored chunk, never the chunks joined as the
\* enhancer's context.
C35_AnswerIsEnhancedOrBestChunk ==
    [][ RelevantAnswerStep =>
          LET r == kb_trace.retrieval
              enhanced_answer == kb_trace'.enhanced
          IN /\ Truthy(enhanced_answer) =>
                   /\ kb_response'.answer = enhanced_answer
                   /\ EnhancedIsUseful(enhanced_answer, r.context)
             /\ ~Truthy(enhanced_answer) =>
                   /\ kb_response'.answer = r.best_match
                   /\ kb_response'.answer \in ChunkTexts
                   /\ ContextCombined(r) => kb_response'.answer # r.context
      ]_vars

\* A relevant lexical answer whose best score lies below 0.4 with a second
\* match (the enhancer was given the chunks joined), the enhancer returned
\* nothing and the answer is the best chunk.
C35_Witness ==
    /\ kb_response # None
    /\ kb_response.relevant
    /\ kb_response.processing_method = "text_search"
    /\ kb_response.confidence < 400
    /\ Len(kb_response.source_documents) >= 2
    /\ kb_trace.enhanced = None
    /\ kb_response.answer = kb_trace.retrieval.best_match

(***************************************************************************)
(* Claims about the history store (checked under HistorySpec)              *)
(***************************************************************************)
IdsDistinct(store) ==
    \A i, j \in 1..Len(store) : i # j => store[i].id # store[j].id

\* C36: in the file-based history store, after any sequence of saves and
\* deletes, no two stored messages have the same id.
C36_IdsAreUnique == IdsDistinct(hStore)

\* While no delete has been served (every request counted was a save) the
\* ids are distinct: it holds.
IdsUniqueBeforeAnyDelete == (Len(hStore) = hOps) => IdsDistinct(hStore)

\* Three messages of one conversation are stored under three ids.
ThreeIdsStored ==
    /\ Len(hStore) = 3
    /\ \A i \in 1..3 : hStore[i].chat_id = "chat-1"
    /\ IdsDistinct(hStore)

\* The step is a delete.
DeleteStep == hOps' = hOps + 1 /\ hOut'.op = "delete"

MessagesOf(store, chat_id) == {i \in 1..Len(store) : store[i].chat_id = chat_id}
OthersOf(store, chat_id) == SelectSeq(store, LAMBDA msg : msg.chat_id # chat_id)

\* C37: deleting the history of a chat_id removes exactly the messages of
\* that chat_id and reports their number; the messages of every other chat
\* stay, unchanged and in their order; listing the deleted chat afterwards
\* returns no message.
C37_DeleteRemovesOneChat ==
    [][ DeleteStep =>
          LET chat_id == hOut'.chat_id
          IN /\ MessagesOf(hStore', chat_id) = {}
             /\ hOut'.deleted_count = Cardinality(MessagesOf(hStore, chat_id))
             /\ Len(hStore') = Len(hStore) - hOut'.deleted_count
             /\ OthersOf(hStore', chat_id) = OthersOf(hStore, chat_id)
             /\ \A limit \in Limits : get_chat_history_limit(hStore', chat_id, limit) = <<>>
             /\ \A count \in Counts : get_recent_messages(hStore', chat_id, count) = <<>>
      ]_vars

\* A delete has removed the two messages of one chat from around a message
\* of the other chat, which is still stored.
C37_Witness ==
    /\ hOut.op = "delete"
    /\ hOut.deleted_count = 2
    /\ Len(hStore) = 1
    /\ hStore[1].message = 2

\* The messages are in the order in which they were appended (a message
\* carries the number of the request that posted it).
InAppendOrder(messages) ==
    \A k \in 1..(Len(messages) - 1) : messages[k].message < messages[k + 1].message

LastN(seq, n) == SubSeq(seq, Len(seq) + 1 - Min(n, Len(seq)), Len(seq))

\* The whole listing of a conversation, as get_chat_history orders it.
WholeListing(chat_id) == get_chat_history_limit(hStore, chat_id, Len(hStore))

\* The listing returned holds only stored messages of the chat requested,
\* each once, at most limit of them, in the order they were appended.
ListingOk ==
    hOut.op = "list" =>
        /\ Len(hOut.messages) <= hOut.n
        /\ \A k \in 1..Len(hOut.messages) :
              /\ hOut.messages[k].chat_id = hOut.chat_id
              /\ \E i \in 1..Len(hStore) : hStore[i] = hOut.messages[k]
        /\ InAppendOrder(hOut.messages)

\* The recent messages returned are the last count messages of the listing
\* of the conversation, in the same order.
RecentOk ==
    hOut.op = "recent" =>
        LET listing == WholeListing(hOut.chat_id)
            last == LastN(listing, hOut.n)
        IN hOut.messages = [k \in 1..Len(last) |-> RecentMessage(last[k])]

\* C38: listing a conversation returns only messages of the chat_id
\* requested, at most limit of them, in an order consistent with the order
\* in which they were appended; the recent-messages operation returns the
\* last count messages of that sequence in the same relative order.
C38_ListingFollowsAppendOrder == ListingOk /\ RecentOk

\* The stored messages carry strictly increasing timestamps (so it is when
\* every entry is posted without a timestamp, as the chat service does).
TimestampsIncrease ==
    \A i \in 1..(Len(hStore) - 1) : hStore[i].timestamp < hStore[i + 1].timestamp

\* With strictly increasing timestamps the claim holds.
ListingFollowsAppendOrderByServerTime ==
    TimestampsIncrease => C38_ListingFollowsAppendOrder

\* The recent messages of a conversation of three messages with increasing
\* timestamps were asked for with count 2 and are its last two.
RecentOfThreeListed ==
    /\ TimestampsIncrease
    /\ hOut.op = "recent" /\ hOut.n = 2
    /\ Len(WholeListing(hOut.chat_id)) = 3
    /\ Len(hOut.messages) = 2
    /\ hOut.messages[1].message < hOut.messages[2].message

(***************************************************************************)
(* Claims about failures of the history store (checked under ChatSpec)     *)
(***************************************************************************)
\* The request has chosen its response and is saving the two turns.
Saving == pc = "save"

\* C39: a failure of the history store never changes the outcome of a chat
\* request: whatever the two posts to the history service do (stored,
\* refused with an error status, service unreachable), the request returns
\* the answer, the source and the confidence it had chosen before saving;
\* and no step that writes the history changes the response.
C39_HistoryFailureKeepsOutcome ==
    [][ /\ Saving => (pc' = "done" /\ response' = response)
        /\ history' # history => response' = response
      ]_vars

\* A request answered from the knowledge base although none of its turns
\* was stored.
C39_Witness ==
    /\ pc = "done"
    /\ response.status = 200
    /\ response.source = "knowledge_base"
    /\ Called("history")
    /\ history = <<>>

=============================================================================
